---- MODULE Spec2Model ----
(***************************************************************************)
(* Model of the telemetry analysis core of the POV display tools:          *)
(* enrichment of the accelerometer table (tools/pov_tools/serial_comm.py), *)
(* data-quality metrics (analysis/analyzers/data_quality.py,               *)
(* telemetry/test.py) and the phase aggregation                            *)
(* (analysis/analyzers/phase.py).                                          *)
(*                                                                         *)
(* Floating-point values are modelled as exact rationals with the IEEE     *)
(* special values NaN and +/-Inf; angles of the phase analysis are         *)
(* fixed-point (centidegrees) with table-driven sin/cos/atan.              *)
(***************************************************************************)
EXTENDS Integers, Sequences, FiniteSets, TLC

VARIABLES
    hall_csv,      \* MSG_HALL_EVENT.csv: [exists, rows]
    accel_csv,     \* MSG_ACCEL_SAMPLES.csv: [exists, columns, rows]
    raw_accel,     \* the raw accelerometer rows as captured (history)
    enrich_ret,    \* return value of enrich_accel_csv: "pending", "true", "false"
    dq_metrics,    \* metrics of data_quality_analysis: [done, ...]
    step_metrics,  \* result of compute_step_metrics: [done, none, ...]
    phase_pc,      \* "idle", "analysis", "analysed", "aggregate" or "aggregated"
    fits,          \* per (position, axis): 1x phase and R^2 of the sinusoid fit
    phase_metrics, \* metrics of _phase_analysis_by_position
    agg_in,        \* estimates handed to _compute_phase_summary directly
    agg_summary,   \* what _compute_phase_summary returned for agg_in
    harm_pc,       \* "idle", "isolate", "isolated", "extract" or "extracted"
    full_bins,     \* the binned array handed to np.fft.rfft: [den, vals]
    harm_out,      \* spectra and the 1x estimate computed from full_bins
    res_pc,        \* "idle", "filter" or "filtered"
    res_in,        \* x_fft and z_fft handed to _generate_1x_filtered_plot
    res_out,       \* metrics["balancing"]
    seg_pc,        \* "idle", "load", "loaded", "raised" or "analysed"
    seg_ctx,       \* speed_log.csv and the enriched table of load_and_enrich
    seg_out,       \* what phase_analysis did with the context
    slice_pc,      \* "idle", "analysis" or "analysed"
    slices,        \* per speed position: sample counts, bin coverage, fits
    slice_metrics, \* metrics of the phase analysis over slices
    retry_pc,      \* "idle", "loop", "returned" or "raised"
    retry_in,      \* arguments of start_capture_with_retry
    retry_st,      \* its locals, the commands sent and the calls it made
    seq_pc,        \* the statement of run_test_sequence that runs next
    seq_in,        \* the speed position the device is at when the run starts
    seq_st,        \* its locals, the safety context, the device and the calls
    cmd_pc,        \* "idle", "analyze" or "exited"
    cmd_out        \* exit code, messages and products of the analyze command

captureVars == <<hall_csv, accel_csv, raw_accel, enrich_ret, dq_metrics, step_metrics>>

phaseVars == <<phase_pc, fits, phase_metrics, agg_in, agg_summary>>

harmonicVars == <<harm_pc, full_bins, harm_out>>

resolverVars == <<res_pc, res_in, res_out>>

segmentVars == <<seg_pc, seg_ctx, seg_out>>

sliceVars == <<slice_pc, slices, slice_metrics>>

analysisVars == <<harmonicVars, resolverVars, segmentVars, sliceVars>>

retryVars == <<retry_pc, retry_in, retry_st>>

seqVars == <<seq_pc, seq_in, seq_st>>

cmdVars == <<cmd_pc, cmd_out>>

toolVars == <<retryVars, seqVars, cmdVars>>

vars == <<captureVars, phaseVars, analysisVars, toolVars>>

\* nothing of the harmonic extraction has run
HarmonicIdle == harm_pc = "idle" /\ full_bins = <<>> /\ harm_out = <<>>

ResolverIdle == res_pc = "idle" /\ res_in = <<>> /\ res_out = <<>>

SegmentIdle == seg_pc = "idle" /\ seg_ctx = <<>> /\ seg_out = <<>>

SliceIdle == slice_pc = "idle" /\ slices = <<>> /\ slice_metrics = <<>>

AnalysisIdle == HarmonicIdle /\ ResolverIdle /\ SegmentIdle /\ SliceIdle

RetryIdle == retry_pc = "idle" /\ retry_in = <<>> /\ retry_st = <<>>

SeqIdle == seq_pc = "idle" /\ seq_in = <<>> /\ seq_st = <<>>

CmdIdle == cmd_pc = "idle" /\ cmd_out = <<>>

ToolIdle == RetryIdle /\ SeqIdle /\ CmdIdle

----------------------------------------------------------------------------
(* Bounds of the model *)

MaxHall == 2        \* rotation events per table
MaxSamples == 2     \* accelerometer samples per table (synchronisation runs)
MaxUnitSamples == 2 \* samples per table in the unit-conversion runs
MaxSeqSamples == 3  \* samples per table in the sequence-number runs
MaxSeqStep == 5     \* largest step between consecutive sequence numbers
MaxEstimates == 2   \* (position, axis) pairs of a phase analysis
MaxLogRows == 2     \* rows of speed_log.csv
MaxSegSamples == 2  \* samples of the enriched table given a speed position
MaxRotation == 3    \* largest rotation_num of those samples
MaxPositions == 2   \* speed positions of a sliced phase analysis
MaxRetries == 3     \* largest max_retries of start_capture_with_retry

\* event timestamps range over 1..MaxHall+1, sample timestamps over
\* 0..MaxHall+2: samples before the first and after the last event exist
HallTimes == 1..(MaxHall + 1)

SampleTimes == 0..(MaxHall + 2)

----------------------------------------------------------------------------
(* float64 arithmetic as exact rationals plus NaN / Inf *)

Abs(n) == IF n < 0 THEN -n ELSE n

Sign(n) == IF n < 0 THEN -1 ELSE IF n > 0 THEN 1 ELSE 0

RECURSIVE GCD(_, _)
GCD(a, b) == IF b = 0 THEN a ELSE GCD(b, a % b)

NaN == [k |-> "nan", num |-> 0, den |-> 1]

Inf(sign) == [k |-> "inf", num |-> sign, den |-> 1]

\* the rational n/d in lowest terms, d # 0
Fin(n, d) ==
    LET g == GCD(Abs(n), Abs(d))
        s == IF d < 0 THEN -1 ELSE 1
    IN  [k |-> "fin", num |-> s * (n \div g), den |-> s * (d \div g)]

FromInt(n) == [k |-> "fin", num |-> n, den |-> 1]

IsFin(a) == a.k = "fin"

FMul(a, b) ==
    IF a.k = "nan" \/ b.k = "nan" THEN NaN
    ELSE IF a.k = "inf" \/ b.k = "inf"
         THEN IF a.num = 0 \/ b.num = 0 THEN NaN
              ELSE Inf(Sign(a.num) * Sign(b.num))
    ELSE Fin(a.num * b.num, a.den * b.den)

\* true division as numpy/pandas do it: x/0 is +/-inf, 0/0 is nan
FDiv(a, b) ==
    IF a.k = "nan" \/ b.k = "nan" THEN NaN
    ELSE IF a.k = "inf"
         THEN IF b.k = "inf" THEN NaN
              ELSE Inf(Sign(a.num) * (IF b.num < 0 THEN -1 ELSE 1))
    ELSE IF b.k = "inf" THEN FromInt(0)
    ELSE IF b.num = 0
         THEN IF a.num = 0 THEN NaN ELSE Inf(Sign(a.num))
    ELSE Fin(a.num * b.den, a.den * b.num)

FAdd(a, b) ==
    IF a.k = "nan" \/ b.k = "nan" THEN NaN
    ELSE IF a.k = "inf"
         THEN IF b.k = "inf" /\ b.num # a.num THEN NaN ELSE a
    ELSE IF b.k = "inf" THEN b
    ELSE LET g == GCD(a.den, b.den)
             l == (a.den \div g) * b.den
         IN  Fin(a.num * (l \div a.den) + b.num * (l \div b.den), l)

\* a % b with the sign of the divisor (Python / numpy float modulo), b finite > 0
FMod(a, b) ==
    IF a.k # "fin" \/ b.k # "fin" THEN NaN
    ELSE IF b.num = 0 THEN NaN
    ELSE LET q == (a.num * b.den) \div (a.den * b.num)
         IN  Fin(a.num * b.den - q * b.num * a.den, a.den * b.den)

FLess(a, b) == IsFin(a) /\ IsFin(b) /\ a.num * b.den < b.num * a.den

FLeq(a, b) == IsFin(a) /\ IsFin(b) /\ a.num * b.den <= b.num * a.den

\* floor of the square root of n >= 0, by bisection on lo..hi
RECURSIVE ISqrtIn(_, _, _)
ISqrtIn(n, lo, hi) ==
    IF lo >= hi THEN lo
    ELSE LET mid == (lo + hi + 1) \div 2
         IN  IF mid * mid <= n THEN ISqrtIn(n, mid, hi) ELSE ISqrtIn(n, lo, mid - 1)

ISqrt(n) == ISqrtIn(n, 0, IF n < 46340 THEN n ELSE 46340)

IsSquare(n) == n >= 0 /\ ISqrt(n) * ISqrt(n) = n

\* np.sqrt: exact when the radicand is a square of a rational, otherwise
\* kept as the (irrational) root of the radicand
FSqrt(a) ==
    IF a.k = "nan" THEN NaN
    ELSE IF a.k = "inf" THEN IF a.num > 0 THEN a ELSE NaN
    ELSE IF a.num < 0 THEN NaN
    ELSE IF IsSquare(a.num) /\ IsSquare(a.den)
         THEN Fin(ISqrt(a.num), ISqrt(a.den))
    ELSE [k |-> "sqrt", num |-> a.num, den |-> a.den]

----------------------------------------------------------------------------
(* MPU-9250 conversion constants, serial_comm.py *)

ACCEL_RANGE_G == 16

GYRO_RANGE_DPS == 2000

HALF_DOMAIN == 32768

ACCEL_G_PER_LSB == FDiv(FromInt(ACCEL_RANGE_G), FromInt(HALF_DOMAIN))

GYRO_DPS_PER_LSB == FDiv(FromInt(GYRO_RANGE_DPS), FromInt(HALF_DOMAIN))

SATURATION_THRESHOLD == 32700

US_PER_MINUTE == 60000000

FULL_TURN_DEG == 360

RawColumns == {"timestamp_us", "sequence_num", "x", "y", "z", "gx", "gy", "gz"}

EnrichedColumns ==
    {"timestamp_us", "sequence_num", "rotation_num", "micros_since_hall",
     "angle_deg", "rpm", "x_g", "y_g", "z_g", "gx_dps", "gy_dps", "gz_dps",
     "gyro_wobble_dps", "is_x_saturated", "is_gz_saturated"}

----------------------------------------------------------------------------
(* enrich_accel_csv, serial_comm.py *)

RECURSIVE InsertByTimestamp(_, _)
InsertByTimestamp(s, e) ==
    IF s = <<>> THEN <<e>>
    ELSE IF e.timestamp_us < Head(s).timestamp_us THEN <<e>> \o s
    ELSE <<Head(s)>> \o InsertByTimestamp(Tail(s), e)

RECURSIVE SortedByTimestamp(_)
SortedByTimestamp(h) ==
    IF h = <<>> THEN <<>>
    ELSE InsertByTimestamp(SortedByTimestamp(SubSeq(h, 1, Len(h) - 1)), h[Len(h)])

\* a mutant of sort_values: the table is used in capture order
unsorted_values(h) == h

\* hall.sort_values('timestamp_us').reset_index(drop=True)
sort_values(h) == SortedByTimestamp(h)

\* np.searchsorted(a, v, side): binary search for the insertion point of v in
\* the sorted array a (0-based); side "right" puts v after equal entries
RECURSIVE BinarySearch(_, _, _, _, _)
BinarySearch(a, v, side, lo, hi) ==
    IF lo >= hi THEN lo
    ELSE LET mid == (lo + hi) \div 2
             goRight == IF side = "right" THEN a[mid + 1] <= v ELSE a[mid + 1] < v
         IN  IF goRight THEN BinarySearch(a, v, side, mid + 1, hi)
             ELSE BinarySearch(a, v, side, lo, mid)

searchsorted(a, v, side) == BinarySearch(a, v, side, 0, Len(a))

clip(i, lo, hi) == IF i < lo THEN lo ELSE IF i > hi THEN hi ELSE i

\* a mutant of indices: left-biased search
indices_left(hall_timestamps, t) == searchsorted(hall_timestamps, t, "left") - 1

\* indices = np.searchsorted(hall_timestamps, accel_timestamps, side='right') - 1
indices(hall_timestamps, t) == searchsorted(hall_timestamps, t, "right") - 1

\* ((micros_since_hall / period_us) * 360.0) % 360.0
angle_deg(micros_since_hall, period_us) ==
    FMod(FMul(FDiv(FromInt(micros_since_hall), FromInt(period_us)),
              FromInt(FULL_TURN_DEG)),
         FromInt(FULL_TURN_DEG))

\* accel[axis].abs() >= SATURATION_THRESHOLD
is_saturated(raw) == Abs(raw) >= SATURATION_THRESHOLD

\* a mutant of to_g: the gyroscope scale applied to an accelerometer axis
to_g_gyro_scale(raw) == FMul(FromInt(raw), GYRO_DPS_PER_LSB)

\* accel[axis] * ACCEL_G_PER_LSB
to_g(raw) == FMul(FromInt(raw), ACCEL_G_PER_LSB)

\* accel[axis] * GYRO_DPS_PER_LSB
to_dps(raw) == FMul(FromInt(raw), GYRO_DPS_PER_LSB)

\* one row of the enriched table, from raw sample s and the sorted hall table hs
EnrichRow(s, hs) ==
    LET hall_timestamps == [i \in 1..Len(hs) |-> hs[i].timestamp_us]
        index == indices(hall_timestamps, s.timestamp_us)
        index_clipped == clip(index, 0, Len(hs) - 1)
        ev == hs[index_clipped + 1]
        before_first == index < 0
        rotation_num == IF before_first THEN 0 ELSE ev.rotation_num
        micros_since_hall ==
            IF before_first THEN 0 ELSE s.timestamp_us - ev.timestamp_us
        period_us == ev.period_us
        gx_dps == to_dps(s.gx)
        gy_dps == to_dps(s.gy)
    IN  [timestamp_us |-> s.timestamp_us,
         sequence_num |-> s.sequence_num,
         rotation_num |-> rotation_num,
         micros_since_hall |-> micros_since_hall,
         angle_deg |-> IF before_first THEN FromInt(0)
                       ELSE angle_deg(micros_since_hall, period_us),
         rpm |-> FDiv(FromInt(US_PER_MINUTE), FromInt(period_us)),
         x_g |-> to_g(s.x),
         y_g |-> to_g(s.y),
         z_g |-> to_g(s.z),
         gx_dps |-> gx_dps,
         gy_dps |-> gy_dps,
         gz_dps |-> to_dps(s.gz),
         gyro_wobble_dps |-> FSqrt(FAdd(FMul(gx_dps, gx_dps), FMul(gy_dps, gy_dps))),
         is_x_saturated |-> is_saturated(s.x),
         is_gz_saturated |-> is_saturated(s.gz)]

\* the enriched table written over MSG_ACCEL_SAMPLES.csv
EnrichedTable(accel, hall) ==
    LET hs == sort_values(hall)
    IN  [i \in 1..Len(accel) |-> EnrichRow(accel[i], hs)]

\* enrich_accel_csv(output_dir): returns False when a file is missing or a
\* table is empty, otherwise overwrites the accelerometer file
EnrichAccelCsv ==
    /\ enrich_ret = "pending"
    /\ IF \/ ~accel_csv.exists \/ ~hall_csv.exists
          \/ accel_csv.rows = <<>> \/ hall_csv.rows = <<>>
       THEN /\ enrich_ret' = "false"
            /\ UNCHANGED accel_csv
       ELSE /\ accel_csv' = [exists |-> TRUE,
                             columns |-> EnrichedColumns,
                             rows |-> EnrichedTable(accel_csv.rows, hall_csv.rows)]
            /\ enrich_ret' = "true"
    /\ UNCHANGED <<hall_csv, raw_accel, dq_metrics, step_metrics, phaseVars, analysisVars, toolVars>>

----------------------------------------------------------------------------
(* data_quality_analysis, analysis/analyzers/data_quality.py *)

RECURSIVE SumSeq(_)
SumSeq(s) == IF s = <<>> THEN 0 ELSE Head(s) + SumSeq(Tail(s))

\* Series.diff().dropna(): differences of consecutive entries
diff(col) == [i \in 1..(Len(col) - 1) |-> col[i + 1] - col[i]]

Column(rows, name) == [i \in 1..Len(rows) |-> rows[i][name]]

SelectSeqNeq1(d) == SelectSeq(d, LAMBDA v : v # 1)

\* a mutant of sequence_gaps: the gap sizes are summed without the -1
sequence_gaps_sum_diffs(accel) ==
    LET seq_diff == diff(Column(accel, "sequence_num"))
        gaps == SelectSeqNeq1(seq_diff)
        gap_count == Len(gaps)
    IN  [gap_count |-> gap_count,
         total_dropped_samples |-> IF gap_count > 0 THEN SumSeq(gaps) ELSE 0]

\* seq_diff = accel["sequence_num"].diff().dropna(); gaps = seq_diff[seq_diff != 1]
sequence_gaps(accel) ==
    LET seq_diff == diff(Column(accel, "sequence_num"))
        gaps == SelectSeqNeq1(seq_diff)
        gap_count == Len(gaps)
    IN  [gap_count |-> gap_count,
         total_dropped_samples |->
             IF gap_count > 0 THEN SumSeq([i \in 1..gap_count |-> gaps[i] - 1]) ELSE 0]

DQ_SATURATION == 4094

\* (accel[axis].abs() >= 4094).sum()
saturation_samples(accel, axis) ==
    Cardinality({i \in 1..Len(accel) : Abs(accel[i][axis]) >= DQ_SATURATION})

DQ_N_BINS == 36

\* (phase * n_bins).astype(int) % n_bins with phase = angle_deg / 360
phase_bin(angle, n_bins) ==
    LET scaled == FMul(FDiv(angle, FromInt(FULL_TURN_DEG)), FromInt(n_bins))
    IN  (scaled.num \div scaled.den) % n_bins

GroupSizes(rows, name) ==
    {Cardinality({i \in 1..Len(rows) : rows[i][name] = v}) :
        v \in {rows[i][name] : i \in 1..Len(rows)}}

SetMin(S) == CHOOSE m \in S : \A v \in S : m <= v

SetMax(S) == CHOOSE m \in S : \A v \in S : v <= m

\* the integer-valued metrics of data_quality_analysis(ctx); ctx.accel is the
\* raw accelerometer table, ctx.enriched the enriched one (the float
\* statistics of intervals and periods are not part of the model)
data_quality_analysis(ctx) ==
    [done |-> TRUE,
     sequence_gaps |-> sequence_gaps(ctx.accel),
     samples_per_rotation |->
         [min |-> SetMin(GroupSizes(ctx.enriched, "rotation_num")),
          max |-> SetMax(GroupSizes(ctx.enriched, "rotation_num"))],
     phase_coverage |->
         [bins_total |-> DQ_N_BINS,
          bins_covered |->
              Cardinality({phase_bin(ctx.enriched[i].angle_deg, DQ_N_BINS) :
                  i \in {j \in 1..Len(ctx.enriched) : IsFin(ctx.enriched[j].angle_deg)}})],
     capture_stats |-> [total_samples |-> Len(ctx.accel)],
     saturation |-> [axis \in {"x", "y", "z"} |-> saturation_samples(ctx.accel, axis)]]

NoDataQuality ==
    [done |-> FALSE,
     sequence_gaps |-> [gap_count |-> 0, total_dropped_samples |-> 0],
     samples_per_rotation |-> [min |-> 0, max |-> 0],
     phase_coverage |-> [bins_total |-> DQ_N_BINS, bins_covered |-> 0],
     capture_stats |-> [total_samples |-> 0],
     saturation |-> [axis \in {"x", "y", "z"} |-> 0]]

\* data_quality_analysis on the context of an enriched capture
DataQualityAnalysis ==
    /\ enrich_ret = "true"
    /\ ~dq_metrics.done
    /\ dq_metrics' = data_quality_analysis(
           [accel |-> raw_accel, hall |-> hall_csv.rows, enriched |-> accel_csv.rows])
    /\ UNCHANGED <<hall_csv, accel_csv, raw_accel, enrich_ret, step_metrics, phaseVars, analysisVars, toolVars>>

----------------------------------------------------------------------------
(* compute_step_metrics, telemetry/test.py *)

STEP_WRAP_DIFF == -255

\* gaps = sum(1 for d in diffs if d != 1 and d != -255)
dropped_samples(seq) ==
    IF Len(seq) > 1
    THEN Cardinality({i \in 1..(Len(seq) - 1) :
             (seq[i + 1] - seq[i]) # 1 /\ (seq[i + 1] - seq[i]) # STEP_WRAP_DIFF})
    ELSE 0

CountTrue(rows, name) == Cardinality({i \in 1..Len(rows) : rows[i][name]})

NoStepMetrics ==
    [done |-> FALSE, none |-> TRUE, dropped_samples |-> 0,
     samples_per_rot_mean |-> FromInt(0),
     x_saturation_pct |-> FromInt(0), gz_saturation_pct |-> FromInt(0)]

\* compute_step_metrics(output_dir, file_suffix) on the accelerometer CSV:
\* None unless the file is enriched and has an rpm value (the rpm and wobble
\* statistics are not part of the model)
compute_step_metrics(file) ==
    IF \/ ~file.exists
       \/ ~({"rpm", "gyro_wobble_dps", "sequence_num"} \subseteq file.columns)
       \/ {i \in 1..Len(file.rows) : file.rows[i].rpm.k # "nan"} = {}
    THEN [NoStepMetrics EXCEPT !.done = TRUE]
    ELSE LET df == file.rows
             total_rows == Len(df)
         IN  [done |-> TRUE,
              none |-> FALSE,
              dropped_samples |-> dropped_samples(Column(df, "sequence_num")),
              samples_per_rot_mean |->
                  Fin(total_rows,
                      Cardinality({df[i].rotation_num : i \in 1..total_rows})),
              x_saturation_pct |->
                  FMul(Fin(CountTrue(df, "is_x_saturated"), total_rows), FromInt(100)),
              gz_saturation_pct |->
                  FMul(Fin(CountTrue(df, "is_gz_saturated"), total_rows), FromInt(100))]

ComputeStepMetrics ==
    /\ enrich_ret # "pending"
    /\ ~step_metrics.done
    /\ step_metrics' = compute_step_metrics(accel_csv)
    /\ UNCHANGED <<hall_csv, accel_csv, raw_accel, enrich_ret, dq_metrics, phaseVars, analysisVars, toolVars>>

----------------------------------------------------------------------------
(* Fixed-point trigonometry: angles in centidegrees, sin/cos scaled by 10^4 *)

HALF_TURN_CD == 18000

FULL_TURN_CD == 36000

QUARTER_TURN_CD == HALF_TURN_CD \div 2

\* round(10^4 * sin(k degrees)), k = 0..90
SinTab ==
    <<0, 175, 349, 523, 698, 872, 1045, 1219, 1392, 1564,
       1736, 1908, 2079, 2250, 2419, 2588, 2756, 2924, 3090, 3256,
       3420, 3584, 3746, 3907, 4067, 4226, 4384, 4540, 4695, 4848,
       5000, 5150, 5299, 5446, 5592, 5736, 5878, 6018, 6157, 6293,
       6428, 6561, 6691, 6820, 6947, 7071, 7193, 7314, 7431, 7547,
       7660, 7771, 7880, 7986, 8090, 8192, 8290, 8387, 8480, 8572,
       8660, 8746, 8829, 8910, 8988, 9063, 9135, 9205, 9272, 9336,
       9397, 9455, 9511, 9563, 9613, 9659, 9703, 9744, 9781, 9816,
       9848, 9877, 9903, 9925, 9945, 9962, 9976, 9986, 9994, 9998,
       10000>>

\* sine on the first quadrant, linear between whole degrees
SinQuadrant(a) ==
    LET k == a \div 100
        f == a % 100
    IN  IF k >= 90 THEN SinTab[91]
        ELSE SinTab[k + 1] + ((SinTab[k + 2] - SinTab[k + 1]) * f + 50) \div 100

\* np.sin(np.radians(p)) for p in centidegrees
sin_deg(p) ==
    LET a == p % FULL_TURN_CD
    IN  IF a <= QUARTER_TURN_CD THEN SinQuadrant(a)
        ELSE IF a <= HALF_TURN_CD THEN SinQuadrant(HALF_TURN_CD - a)
        ELSE IF a <= HALF_TURN_CD + QUARTER_TURN_CD THEN -SinQuadrant(a - HALF_TURN_CD)
        ELSE -SinQuadrant(FULL_TURN_CD - a)

\* np.cos(np.radians(p))
cos_deg(p) == sin_deg(p + QUARTER_TURN_CD)

\* round(1000 * degrees(atan(k / 64))), k = 0..64
AtanTab ==
    <<0, 895, 1790, 2684, 3576, 4467, 5356, 6242,
       7125, 8005, 8881, 9752, 10620, 11482, 12339, 13191,
       14036, 14876, 15709, 16535, 17354, 18166, 18970, 19767,
       20556, 21337, 22109, 22874, 23629, 24376, 25115, 25844,
       26565, 27277, 27979, 28673, 29358, 30033, 30700, 31357,
       32005, 32645, 33275, 33896, 34509, 35112, 35707, 36293,
       36870, 37439, 37999, 38550, 39094, 39629, 40156, 40675,
       41186, 41689, 42184, 42672, 43152, 43625, 44091, 44549,
       45000>>

\* atan(m / M) in centidegrees for 0 <= m <= M, M > 0: the ratio to 14 bits,
\* then the table, linear between entries
AtanRatio(m, M) ==
    LET q1 == (m * 128) \div M
        r1 == (m * 128) % M
        q == q1 * 128 + (r1 * 128) \div M
        idx == q \div 256
        f == q % 256
        mdeg == IF idx >= 64 THEN AtanTab[65]
                ELSE AtanTab[idx + 1] + ((AtanTab[idx + 2] - AtanTab[idx + 1]) * f) \div 256
    IN  (mdeg + 5) \div 10

\* np.degrees(np.arctan2(y, x)) in centidegrees, in (-180, 180] degrees
arctan2_deg(y, x) ==
    LET ax == Abs(x)
        ay == Abs(y)
        th == IF ay <= ax THEN AtanRatio(ay, ax) ELSE QUARTER_TURN_CD - AtanRatio(ax, ay)
    IN  IF ax = 0 /\ ay = 0 THEN 0
        ELSE IF x >= 0 THEN (IF y >= 0 THEN th ELSE -th)
        ELSE (IF y >= 0 THEN HALF_TURN_CD - th ELSE th - HALF_TURN_CD)

\* round(v, 1) of an angle in centidegrees, in tenths of a degree (ties to even)
round1(cd) ==
    LET q == cd \div 10
        r == cd % 10
    IN  IF r < 5 THEN q
        ELSE IF r > 5 THEN q + 1
        ELSE IF q % 2 = 0 THEN q ELSE q + 1

----------------------------------------------------------------------------
(* _compute_phase_summary, analysis/analyzers/phase.py                     *)
(* r_squared is in hundredths, phase_deg in centidegrees; the reported     *)
(* (rounded) angles are in tenths of a degree                              *)

R2_FLOOR == 15

EmptyDict == [key \in {} |-> 0]

\* a mutant of retained: an estimate at the floor is kept
retained_at_floor(e) == e.r_squared >= R2_FLOOR

\* e["r_squared"] > 0.15
retained(e) == e.r_squared > R2_FLOOR

\* [e for e in all_estimates if e["r_squared"] > 0.15]
good_estimates_of(all_estimates) == SelectSeq(all_estimates, retained)

\* sum(w * np.sin(np.radians(p)) for w, p in zip(weights, phases))
sin_sum(good) == SumSeq([i \in 1..Len(good) |-> good[i].r_squared * sin_deg(good[i].phase_deg)])

cos_sum(good) == SumSeq([i \in 1..Len(good) |-> good[i].r_squared * cos_deg(good[i].phase_deg)])

total_weight(good) == SumSeq([i \in 1..Len(good) |-> good[i].r_squared])

\* a mutant of mean_phase: the weighted arithmetic mean of the phases
mean_phase_arithmetic(good) ==
    (SumSeq([i \in 1..Len(good) |-> good[i].r_squared * good[i].phase_deg])
        \div total_weight(good)) % FULL_TURN_CD

\* np.degrees(np.arctan2(sin_sum, cos_sum)) % 360
mean_phase(good) == arctan2_deg(sin_sum(good), cos_sum(good)) % FULL_TURN_CD

\* degrees(sqrt(-2 ln(k / 16))) in tenths of a degree, k = 1..16
CircStdTab ==
    <<1349, 1168, 1048, 954, 874, 802, 737, 675, 615, 555, 496, 435, 369, 296, 206, 0>>

MAX_DISPERSION == 1800

\* r_bar = |sum| / total_weight, then degrees(sqrt(-2 ln r_bar)), to a
\* sixteenth of r_bar; 180 when r_bar is not positive
circ_std(good) ==
    LET s == sin_sum(good) \div 100
        c == cos_sum(good) \div 100
        r_bar16 == (ISqrt(s * s + c * c) * 16) \div (total_weight(good) * 100)
    IN  IF sin_sum(good) = 0 /\ cos_sum(good) = 0 THEN MAX_DISPERSION
        ELSE CircStdTab[IF r_bar16 < 1 THEN 1 ELSE IF r_bar16 > 16 THEN 16 ELSE r_bar16]

\* counterweight = (mean_phase + 180) % 360
counterweight_of(mean) == (mean + HALF_TURN_CD) % FULL_TURN_CD

_compute_phase_summary(all_estimates) ==
    IF all_estimates = <<>> THEN EmptyDict
    ELSE LET good == good_estimates_of(all_estimates)
         IN  IF good = <<>> THEN [n_estimates |-> 0]
             ELSE [n_estimates |-> Len(good),
                   mean_phase_deg |-> round1(mean_phase(good)),
                   circular_std_deg |-> circ_std(good),
                   counterweight_deg |-> round1(counterweight_of(mean_phase(good))),
                   estimates |-> good]

\* the aggregator applied to a given set of estimates
ComputePhaseSummary ==
    /\ phase_pc = "aggregate"
    /\ agg_summary' = _compute_phase_summary(agg_in)
    /\ phase_pc' = "aggregated"
    /\ UNCHANGED <<fits, phase_metrics, agg_in, captureVars, analysisVars, toolVars>>

----------------------------------------------------------------------------
(* _phase_analysis_by_position, analysis/analyzers/phase.py: the per-axis  *)
(* results of the position loop and the phase summary                      *)

\* position_results["axes"][axis] for the pairs analysed, in loop order
axes_results(fs) ==
    [i \in 1..Len(fs) |->
        [position |-> fs[i].position, axis |-> fs[i].axis,
         phase_deg |-> round1(fs[i].phase_deg), r_squared |-> fs[i].r_squared]]

\* if r_squared > 0.15: all_phase_estimates.append(...)
all_phase_estimates_of(fs) == SelectSeq(fs, retained)

\* if all_phase_estimates: metrics["phase_summary"] = _compute_phase_summary(...)
phase_summary_of(all_phase_estimates) ==
    IF all_phase_estimates # <<>> THEN _compute_phase_summary(all_phase_estimates)
    ELSE EmptyDict

N_BINS == 72

\* round(v, 0) of an angle in centidegrees, in whole degrees (ties to even)
round0(cd) ==
    LET q == cd \div 100
        r == cd % 100
    IN  IF r < 50 THEN q
        ELSE IF r > 50 THEN q + 1
        ELSE IF q % 2 = 0 THEN q ELSE q + 1

\* peak_angle = peak_idx * (360 / n_bins)
peak_angle(peak_idx) == peak_idx * (FULL_TURN_CD \div N_BINS)

\* metrics["balancing"] of _generate_1x_filtered_plot
balancing(peak_idx) ==
    [peak_imbalance_deg |-> round0(peak_angle(peak_idx)),
     counterweight_position_deg |-> round0(counterweight_of(peak_angle(peak_idx)))]

\* np.argmax of the combined 1x signal
PeakChoices == {0, 1, 35, 36, 37, N_BINS - 1}

PhaseAnalysisByPosition ==
    /\ phase_pc = "analysis"
    \* the filtered plot is generated only when the high speed data fills
    \* enough bins
    /\ \E generated \in BOOLEAN, peak_idx \in PeakChoices :
           phase_metrics' =
               [phase_by_position |-> axes_results(fits),
                phase_summary |-> phase_summary_of(all_phase_estimates_of(fits)),
                balancing |-> IF generated THEN balancing(peak_idx) ELSE EmptyDict]
    /\ phase_pc' = "analysed"
    /\ UNCHANGED <<fits, agg_in, agg_summary, captureVars, analysisVars, toolVars>>

NoPhaseMetrics ==
    [phase_by_position |-> <<>>, phase_summary |-> EmptyDict, balancing |-> EmptyDict]

PhaseIdle ==
    /\ phase_pc = "idle"
    /\ fits = <<>>
    /\ phase_metrics = NoPhaseMetrics
    /\ agg_in = <<>>
    /\ agg_summary = EmptyDict

----------------------------------------------------------------------------
(* Exact arithmetic for the transforms over N_BINS = 72 bins.  A value is  *)
(* an integer combination of the powers 0..35 of zeta = exp(2 pi i / 72),  *)
(* where zeta^36 = -1; an array or a spectrum carries one denominator for  *)
(* all its values: [den, vals].                                            *)

HALF_BINS == N_BINS \div 2

CycExps == 0..(HALF_BINS - 1)

BinIndex == 0..(N_BINS - 1)

RfftIndex == 0..HALF_BINS

CycZero == [e \in CycExps |-> 0]

CycInt(n) == [e \in CycExps |-> IF e = 0 THEN n ELSE 0]

\* the coefficient of zeta^e in a, for any integer e
CycCoef(a, e) ==
    LET r == e % N_BINS
    IN  IF r < HALF_BINS THEN a[r] ELSE -a[r - HALF_BINS]

\* a * zeta^m
CycMulZeta(a, m) == [e \in CycExps |-> CycCoef(a, e - m)]

CycAdd(a, b) == [e \in CycExps |-> a[e] + b[e]]

CycSub(a, b) == [e \in CycExps |-> a[e] - b[e]]

CycScale(n, a) == [e \in CycExps |-> n * a[e]]

\* a = 0: the powers 0..23 of zeta are a basis, and for 24 <= i < 36
\* zeta^i = zeta^(i-12) - zeta^(i-24)
CycIsZero(a) ==
    \A j \in 0..(N_BINS \div 3 - 1) :
        (IF j < N_BINS \div 6 THEN a[j] - a[j + N_BINS \div 3]
                               ELSE a[j] + a[j + N_BINS \div 6]) = 0

RECURSIVE SumRange(_, _, _)
\* f[lo] + ... + f[hi], lo <= hi, summed by halves
SumRange(f, lo, hi) ==
    IF lo = hi THEN f[lo]
    ELSE LET mid == (lo + hi) \div 2
         IN  SumRange(f, lo, mid) + SumRange(f, mid + 1, hi)

\* f[0] + ... + f[n]
SumTo(f, n) == IF n < 0 THEN 0 ELSE SumRange(f, 0, n)

----------------------------------------------------------------------------
(* np.fft.rfft, np.fft.irfft and the 1x isolation of                       *)
(* _generate_1x_filtered_plot, analysis/analyzers/phase.py                 *)

\* bin k of np.fft.rfft: sum over j of v[j] * zeta^(-j k)
rfft_bin(v, k) ==
    [e \in CycExps |-> SumTo([j \in BinIndex |-> CycCoef(v[j], e + j * k)], N_BINS - 1)]

\* np.fft.rfft(a): the bins 0..n/2 of the transform of a real array
rfft(a) == [den |-> a.den, vals |-> [k \in RfftIndex |-> rfft_bin(a.vals, k)]]

\* a mutant of isolate: the mean (order 0) is kept as well
isolate_keeping_mean(fft, order) ==
    [den |-> fft.den,
     vals |-> [k \in RfftIndex |-> IF k \in {0, order} THEN fft.vals[k] ELSE CycZero]]

\* x_fft_1x = np.zeros_like(x_fft); x_fft_1x[1] = x_fft[1]
isolate(fft, order) ==
    [den |-> fft.den,
     vals |-> [k \in RfftIndex |-> IF k = order THEN fft.vals[k] ELSE CycZero]]

RECURSIVE SumOver(_, _)
\* the sum of f over the finite set S of its arguments
SumOver(f, S) ==
    IF S = {} THEN 0
    ELSE LET k == CHOOSE x \in S : TRUE IN f[k] + SumOver(f, S \ {k})

\* 2 n times sample j of np.fft.irfft(X, n): the real parts of the bins 0 and
\* n/2, and every bin between them with its conjugate; inner is the set of the
\* bins between them that are not zero
irfft_sample(X, inner, j) ==
    [e \in CycExps |->
        CycCoef(X[0], e) + CycCoef(X[0], -e)
        + (IF j % 2 = 0 THEN 1 ELSE -1) * (CycCoef(X[HALF_BINS], e) + CycCoef(X[HALF_BINS], -e))
        + 2 * SumOver([k \in inner |-> CycCoef(X[k], e - j * k) + CycCoef(X[k], -e - j * k)],
                      inner)]

\* np.fft.irfft(fft, n=n_bins)
irfft(fft) ==
    LET inner == {k \in 1..(HALF_BINS - 1) : fft.vals[k] # CycZero}
    IN  [den |-> fft.den * 2 * N_BINS,
         vals |-> [j \in BinIndex |-> irfft_sample(fft.vals, inner, j)]]

\* x_1x_signal of _generate_1x_filtered_plot, from the binned array
IsolateHarmonic ==
    /\ harm_pc = "isolate"
    /\ LET fft == rfft(full_bins)
       IN  harm_out' = [fft |-> fft, signal_1x |-> irfft(isolate(fft, 1))]
    /\ harm_pc' = "isolated"
    /\ UNCHANGED <<full_bins, captureVars, phaseVars, resolverVars, segmentVars, sliceVars, toolVars>>

----------------------------------------------------------------------------
(* The per-axis 1x estimate of _phase_analysis_by_position and             *)
(* _compute_sinusoid_r2.  Values leave the exact arithmetic as fixed-point *)
(* numbers: magnitudes and r_squared in hundredths, the rounded phase in   *)
(* tenths of a degree.                                                     *)

BIN_WIDTH_CD == FULL_TURN_CD \div N_BINS

\* integer division that rounds towards zero
TruncDiv(x, d) == Sign(x) * (Abs(x) \div d)

\* 10^4 times the real part of a
CycReal(a) == SumTo([e \in CycExps |-> a[e] * cos_deg(BIN_WIDTH_CD * e)], HALF_BINS - 1)

\* 10^4 times the imaginary part of a
CycImag(a) == SumTo([e \in CycExps |-> a[e] * sin_deg(BIN_WIDTH_CD * e)], HALF_BINS - 1)

\* float(np.abs(fft[1])), in hundredths
abs_bin(a, den) ==
    LET re == TruncDiv(CycReal(a), 100)
        im == TruncDiv(CycImag(a), 100)
    IN  ISqrt(re * re + im * im) \div den

\* float(np.degrees(np.angle(fft[1]))), in centidegrees
angle_bin(a) == arctan2_deg(CycImag(a), CycReal(a))

\* the least-squares sinusoid A sin(theta + phi) + offset of an array is its
\* mean plus its first harmonic: what curve_fit returns when it converges
fit_values(fft) ==
    irfft([den |-> fft.den,
           vals |-> [k \in RfftIndex |-> IF k \in {0, 1} THEN fft.vals[k] ELSE CycZero]])

\* np.sum((values - fit_values) ** 2), the differences in tenths
ss_res(values, fit) ==
    SumTo([j \in BinIndex |->
              LET d == TruncDiv(CycReal(CycSub(CycScale(2 * N_BINS, values.vals[j]), fit.vals[j])),
                                1000 * fit.den)
              IN  d * d],
          N_BINS - 1)

\* N_BINS times np.mean(values)
sum_values(values) ==
    [e \in CycExps |-> SumTo([j \in BinIndex |-> values.vals[j][e]], N_BINS - 1)]

\* np.sum((values - np.mean(values)) ** 2), the differences in tenths
ss_tot(values) ==
    SumTo([j \in BinIndex |->
              LET d == TruncDiv(CycReal(CycSub(CycScale(N_BINS, values.vals[j]), sum_values(values))),
                                1000 * N_BINS * values.den)
              IN  d * d],
          N_BINS - 1)

\* _compute_sinusoid_r2, in hundredths: 0.0 when curve_fit raises
compute_sinusoid_r2(values, fft, converged) ==
    IF ~converged THEN 0
    ELSE IF ss_tot(values) > 0
         THEN 100 - (100 * ss_res(values, fit_values(fft))) \div ss_tot(values)
         ELSE 0

\* position_results["axes"][axis] for one binned array; whether the
\* optimiser converges within maxfev evaluations is not decided by the array
ExtractHarmonic ==
    /\ harm_pc = "extract"
    /\ \E converged \in BOOLEAN :
          LET fft == rfft(full_bins)
          IN  harm_out' = [fft |-> fft,
                           converged |-> converged,
                           magnitude_g |-> abs_bin(fft.vals[1], fft.den),
                           phase_deg |-> round1(angle_bin(fft.vals[1])),
                           r_squared |-> compute_sinusoid_r2(full_bins, fft, converged)]
    /\ harm_pc' = "extracted"
    /\ UNCHANGED <<full_bins, captureVars, phaseVars, resolverVars, segmentVars, sliceVars, toolVars>>

----------------------------------------------------------------------------
(* The balancing recommendation of _generate_1x_filtered_plot              *)

\* 10^2 times sample j of a signal, times scale
sample_value(signal, j, scale) == TruncDiv(CycReal(signal.vals[j]), 100) * scale

\* a mutant of combined_1x: the signals are added without being squared
combined_1x_sum(x_1x_signal, z_1x_signal) ==
    [j \in BinIndex |->
        sample_value(x_1x_signal, j, z_1x_signal.den \div (2 * N_BINS))
        + sample_value(z_1x_signal, j, x_1x_signal.den \div (2 * N_BINS))]

\* combined_1x = np.sqrt(x_1x_signal**2 + z_1x_signal**2), squared and on the
\* common denominator of the two signals (both carry the factor 2 n of
\* irfft): the square root keeps the order
combined_1x(x_1x_signal, z_1x_signal) ==
    [j \in BinIndex |->
        LET x == sample_value(x_1x_signal, j, z_1x_signal.den \div (2 * N_BINS))
            z == sample_value(z_1x_signal, j, x_1x_signal.den \div (2 * N_BINS))
        IN  x * x + z * z]

RECURSIVE last_max_in(_, _, _)
last_max_in(a, lo, hi) ==
    IF lo = hi THEN [idx |-> lo, value |-> a[lo]]
    ELSE LET mid == (lo + hi) \div 2
             left == last_max_in(a, lo, mid)
             right == last_max_in(a, mid + 1, hi)
         IN  IF right.value >= left.value THEN right ELSE left

\* a mutant of argmax: the last index holding the maximum
argmax_last(a) == last_max_in(a, 0, N_BINS - 1).idx

RECURSIVE first_max_in(_, _, _)
\* the first index in lo..hi holding the maximum of a over lo..hi, with that
\* maximum, found by halves: a later element wins only when strictly greater
first_max_in(a, lo, hi) ==
    IF lo = hi THEN [idx |-> lo, value |-> a[lo]]
    ELSE LET mid == (lo + hi) \div 2
             left == first_max_in(a, lo, mid)
             right == first_max_in(a, mid + 1, hi)
         IN  IF right.value > left.value THEN right ELSE left

\* np.argmax: the first index holding the maximum
argmax(a) == first_max_in(a, 0, N_BINS - 1).idx

\* _generate_1x_filtered_plot up to metrics["balancing"]
Generate1xFilteredPlot ==
    /\ res_pc = "filter"
    /\ LET x_1x_signal == irfft(isolate(res_in.x_fft, 1))
           z_1x_signal == irfft(isolate(res_in.z_fft, 1))
           peak_idx == argmax(combined_1x(x_1x_signal, z_1x_signal))
       IN  res_out' = balancing(peak_idx)
    /\ res_pc' = "filtered"
    /\ UNCHANGED <<res_in, captureVars, phaseVars, harmonicVars, segmentVars, sliceVars, toolVars>>

----------------------------------------------------------------------------
(* _assign_speed_positions and load_and_enrich, analysis/loader.py;        *)
(* the dispatch of phase_analysis, analysis/analyzers/phase.py             *)

\* np.cumsum(hall_packets)
cumsum(hall_packets) ==
    [i \in 1..Len(hall_packets) |-> SumSeq(SubSeq(hall_packets, 1, i))]

\* a mutant of position_indices: left-biased search
position_indices_left(cs, rotation_nums) ==
    [k \in 1..Len(rotation_nums) |-> searchsorted(cs, rotation_nums[k], "left")]

\* position_indices = np.searchsorted(cumsum, rotation_nums, side="right")
position_indices(cs, rotation_nums) ==
    [k \in 1..Len(rotation_nums) |-> searchsorted(cs, rotation_nums[k], "right")]

\* positions[position_indices] is evaluated for every sample before np.where
\* selects: an index equal to len(positions) raises IndexError
IndexErrorRaised(positions, idx) == \E k \in 1..Len(idx) : idx[k] >= Len(positions)

\* np.where(position_indices < len(positions), positions[position_indices], np.nan)
speed_position(positions, idx) ==
    [k \in 1..Len(idx) |->
        IF idx[k] < Len(positions) THEN FromInt(positions[idx[k] + 1]) ELSE NaN]

WithSpeedPosition(enriched, col) ==
    [columns |-> enriched.columns \cup {"speed_position"},
     rows |-> [k \in 1..Len(enriched.rows) |->
                 [rotation_num |-> enriched.rows[k].rotation_num,
                  rpm |-> enriched.rows[k].rpm,
                  speed_position |-> col[k]]]]

_assign_speed_positions(enriched, speed_log) ==
    IF "hall_packets" \notin speed_log.columns
    THEN [raised |-> FALSE,
          enriched |-> WithSpeedPosition(enriched, [k \in 1..Len(enriched.rows) |-> NaN])]
    ELSE LET positions == Column(speed_log.rows, "position")
             idx == position_indices(cumsum(Column(speed_log.rows, "hall_packets")),
                                     Column(enriched.rows, "rotation_num"))
         IN  IF IndexErrorRaised(positions, idx)
             THEN [raised |-> TRUE, enriched |-> enriched]
             ELSE [raised |-> FALSE,
                   enriched |-> WithSpeedPosition(enriched, speed_position(positions, idx))]

\* load_and_enrich from the speed log on: ctx.speed_log stays None when
\* speed_log.csv does not exist; an exception of the assignment is not caught
LoadAndEnrich ==
    /\ seg_pc = "load"
    /\ IF ~seg_ctx.speed_log.exists
       THEN seg_pc' = "loaded" /\ UNCHANGED seg_ctx
       ELSE LET r == _assign_speed_positions(seg_ctx.enriched, seg_ctx.speed_log)
            IN  IF r.raised
                THEN seg_pc' = "raised" /\ UNCHANGED seg_ctx
                ELSE seg_pc' = "loaded" /\ seg_ctx' = [seg_ctx EXCEPT !.enriched = r.enriched]
    /\ UNCHANGED <<seg_out, captureVars, phaseVars, harmonicVars, resolverVars, sliceVars, toolVars>>

GLITCH_RPM == 10000

LOW_SPEED_RPM == 650

HIGH_SPEED_RPM == 1200

\* ctx.speed_log is not None and "speed_position" in ctx.enriched.columns
uses_positions(ctx) == ctx.speed_log.exists /\ "speed_position" \in ctx.enriched.columns

\* the positions _phase_analysis_by_position analyses
valid_positions(enriched) ==
    {enriched.rows[k].speed_position :
        k \in {i \in 1..Len(enriched.rows) :
                 /\ enriched.rows[i].speed_position # NaN
                 /\ enriched.rows[i].rpm < GLITCH_RPM}}

\* the rows of a speed band of _phase_analysis_fallback
low_speed(enriched) ==
    {k \in 1..Len(enriched.rows) :
        enriched.rows[k].rpm < GLITCH_RPM /\ enriched.rows[k].rpm < LOW_SPEED_RPM}

high_speed(enriched) ==
    {k \in 1..Len(enriched.rows) :
        enriched.rows[k].rpm < GLITCH_RPM /\ enriched.rows[k].rpm > HIGH_SPEED_RPM}

\* phase_analysis: which path runs and the slices it works on
PhaseAnalysis ==
    /\ seg_pc = "loaded"
    /\ seg_out' =
           IF uses_positions(seg_ctx)
           THEN [path |-> "by_position", positions |-> valid_positions(seg_ctx.enriched),
                 low_speed |-> {}, high_speed |-> {}]
           ELSE [path |-> "fallback", positions |-> {},
                 low_speed |-> low_speed(seg_ctx.enriched),
                 high_speed |-> high_speed(seg_ctx.enriched)]
    /\ seg_pc' = "analysed"
    /\ UNCHANGED <<seg_ctx, captureVars, phaseVars, harmonicVars, resolverVars, sliceVars, toolVars>>

----------------------------------------------------------------------------
(* The data guards of _phase_analysis_by_position and                      *)
(* _phase_analysis_fallback.  A slice is described by what the guards look *)
(* at: its number of samples and of covered phase bins, before and after   *)
(* the first two seconds are dropped, and the outcome of the fit per axis. *)

MIN_SAMPLES == 100

COVERAGE_TENTHS == 8

Axes == {"x_g", "z_g"}

\* pos_data after "exclude first 2 seconds for steady-state", which applies
\* when the position has more than 100 samples
steady_state(slice) ==
    IF slice.n_samples > MIN_SAMPLES
    THEN [n |-> slice.n_steady, bins |-> slice.bins_steady]
    ELSE [n |-> slice.n_samples, bins |-> slice.bins_all]

\* len(bin_means) < n_bins * 0.8
coverage_below(bins) == 10 * bins < COVERAGE_TENTHS * N_BINS

\* _compute_sinusoid_r2 for a fit outcome: 0.0 when curve_fit raised
r_squared_of(fit) == IF fit.converged THEN fit.r_squared ELSE 0

\* position_results["axes"]: an entry per axis unless the coverage guard skips it
axes_of(slice) ==
    IF coverage_below(steady_state(slice).bins) THEN <<>>
    ELSE [axis \in Axes |-> [r_squared |-> r_squared_of(slice.fit[axis])]]

\* the positions the loop does not skip: if len(pos_data) < 100: continue
analysed_positions(sl) ==
    {i \in 1..Len(sl) : ~(steady_state(sl[i]).n < MIN_SAMPLES)}

\* metrics["phase_by_position"]
phase_by_position(sl) ==
    [i \in analysed_positions(sl) |->
        [position |-> sl[i].position,
         n_samples |-> steady_state(sl[i]).n,
         axes |-> axes_of(sl[i])]]

RECURSIVE estimates_upto(_, _)
\* all_phase_estimates after the positions 1..i of the loop, x_g before z_g
estimates_upto(sl, i) ==
    IF i = 0 THEN <<>>
    ELSE LET axes == IF i \in analysed_positions(sl) THEN axes_of(sl[i]) ELSE <<>>
             est(axis) == [position |-> sl[i].position, axis |-> axis,
                           r_squared |-> axes[axis].r_squared]
             kept(axis) == IF axis \in DOMAIN axes /\ axes[axis].r_squared > R2_FLOOR
                           THEN <<est(axis)>> ELSE <<>>
         IN  estimates_upto(sl, i - 1) \o kept("x_g") \o kept("z_g")

\* high_positions: the top third of the positions by mean RPM, at least one.
\* The capture steps the speed up with the position, and with fewer than six
\* positions the top third is the last position alone.
high_data(sl) == sl[Len(sl)]

FrequencyKeys == {"x_1x", "z_1x", "z_3x_magnitude_g"}

BalancingKeys == {"peak_imbalance_deg", "counterweight_position_deg"}

\* the high speed FFT of the per-position path runs when the high positions
\* hold more than 100 samples and, transitions excluded, 80% of the bins
high_fft_by_position(sl) ==
    /\ high_data(sl).n_samples > MIN_SAMPLES
    /\ ~coverage_below(steady_state(high_data(sl)).bins)

\* the high speed FFT of the fallback path runs on more than 100 samples
\* that cover every bin
high_fft_fallback(band) == band.n_samples > MIN_SAMPLES /\ band.bins = N_BINS

\* _phase_analysis_by_position from the position loop to the high speed FFT
AnalyseSlicesByPosition ==
    /\ slice_pc = "analysis"
    /\ slices.path = "by_position"
    /\ slice_metrics' =
           [phase_by_position |-> phase_by_position(slices.positions),
            estimates |-> estimates_upto(slices.positions, Len(slices.positions)),
            frequency_analysis |->
                IF high_fft_by_position(slices.positions) THEN FrequencyKeys ELSE {},
            balancing |->
                IF high_fft_by_position(slices.positions) THEN BalancingKeys ELSE {}]
    /\ slice_pc' = "analysed"
    /\ UNCHANGED <<slices, captureVars, phaseVars, harmonicVars, resolverVars, segmentVars, toolVars>>

\* _phase_analysis_fallback: the high speed band
AnalyseSlicesFallback ==
    /\ slice_pc = "analysis"
    /\ slices.path = "fallback"
    /\ slice_metrics' =
           [frequency_analysis |->
                IF high_fft_fallback(slices.high_speed) THEN FrequencyKeys ELSE {},
            balancing |->
                IF high_fft_fallback(slices.high_speed) THEN BalancingKeys ELSE {}]
    /\ slice_pc' = "analysed"
    /\ UNCHANGED <<slices, captureVars, phaseVars, harmonicVars, resolverVars, segmentVars, toolVars>>

----------------------------------------------------------------------------
(* The analyze command: load_and_enrich, run_all_analyses, the report and
   the JSON output; telemetry/analyze_cmd.py, analysis/loader.py,
   analysis/analyzers/__init__.py *)

HallColumns == {"timestamp_us", "period_us", "rotation_num"}

RECURSIVE Flatten(_)
Flatten(ss) == IF ss = <<>> THEN <<>> ELSE Head(ss) \o Flatten(Tail(ss))

\* the rows of hall[["rotation_num", "period_us"]] with the key of a row
matches(row, hall) == SelectSeq(hall, LAMBDA e : e.rotation_num = row.rotation_num)

\* accel.merge(hall[["rotation_num", "period_us"]], on="rotation_num",
\* how="left"): the rows of accel in order, each once per matching row of
\* hall, or once with a missing period_us when nothing matches
merge(accel, hall) ==
    Flatten([i \in 1..Len(accel) |->
                LET found == matches(accel[i], hall)
                IN  IF found = <<>>
                    THEN <<accel[i] @@ [period_us |-> NaN]>>
                    ELSE [j \in 1..Len(found) |->
                            accel[i] @@ [period_us |-> FromInt(found[j].period_us)]]])

\* load_and_enrich(data_dir) for a directory without speed_log.csv: the
\* merge raises KeyError when the accelerometer file has no rotation_num
load_and_enrich(accel, hall) ==
    IF "rotation_num" \notin accel.columns
    THEN [raised |-> "rotation_num", plots_dir |-> FALSE,
          accel |-> accel.columns, hall |-> HallColumns,
          enriched |-> [columns |-> {}, rows |-> <<>>]]
    ELSE [raised |-> "", plots_dir |-> TRUE,
          accel |-> accel.columns, hall |-> HallColumns,
          enriched |->
              [columns |-> accel.columns \cup {"period_us"}
                              \cup (IF "angle_deg" \in accel.columns
                                    THEN {"phase"} ELSE {}),
               rows |-> merge(accel.rows, hall.rows)]]

ANALYZERS ==
    <<"data_quality_analysis", "rpm_sweep_analysis", "axis_timeseries_analysis",
      "distribution_analysis", "phase_analysis">>

\* the columns each analyzer indexes without a guard, in the order it
\* reads them, as <<table of the context, column>>
data_quality_reads ==
    <<<<"accel", "timestamp_us">>, <<"accel", "sequence_num">>,
      <<"hall", "period_us">>, <<"enriched", "rotation_num">>,
      <<"enriched", "phase">>, <<"accel", "x">>, <<"accel", "y">>,
      <<"accel", "z">>>>

rpm_sweep_reads == <<<<"hall", "period_us">>, <<"hall", "timestamp_us">>>>

axis_timeseries_reads ==
    <<<<"enriched", "timestamp_us">>, <<"enriched", "x_g">>,
      <<"enriched", "y_g">>, <<"enriched", "z_g">>,
      <<"enriched", "is_x_saturated">>, <<"enriched", "is_y_saturated">>,
      <<"enriched", "is_z_saturated">>>>

distribution_reads ==
    <<<<"enriched", "is_x_saturated">>, <<"enriched", "x_g">>,
      <<"enriched", "y_g">>, <<"enriched", "z_g">>>>

\* phase_analysis without a speed log: _phase_analysis_fallback
phase_reads == <<<<"enriched", "rpm">>, <<"enriched", "phase">>>>

column_reads(analyzer) ==
    CASE analyzer = "data_quality_analysis" -> data_quality_reads
      [] analyzer = "rpm_sweep_analysis" -> rpm_sweep_reads
      [] analyzer = "axis_timeseries_analysis" -> axis_timeseries_reads
      [] analyzer = "distribution_analysis" -> distribution_reads
      [] analyzer = "phase_analysis" -> phase_reads

columns_of(ctx, table) ==
    CASE table = "accel" -> ctx.accel
      [] table = "hall" -> ctx.hall
      [] table = "enriched" -> ctx.enriched.columns

\* the reads of an analyzer that raise KeyError on the context
missing_reads(analyzer, ctx) ==
    SelectSeq(column_reads(analyzer), LAMBDA r : r[2] \notin columns_of(ctx, r[1]))

\* run_all_analyses(ctx): the analyzers in registry order; the first
\* KeyError ends the run
RECURSIVE run_from(_, _, _)
run_from(ctx, k, done) ==
    IF k > Len(ANALYZERS) THEN [raised |-> "", results |-> done]
    ELSE LET missing == missing_reads(ANALYZERS[k], ctx)
         IN  IF missing # <<>>
             THEN [raised |-> missing[1][2], results |-> done]
             ELSE run_from(ctx, k + 1, Append(done, ANALYZERS[k]))

run_all_analyses(ctx) == run_from(ctx, 1, <<>>)

Exit(code, messages, ctx, results, written) ==
    [exit_code |-> code, messages |-> messages, plots_dir |-> ctx.plots_dir,
     enriched |-> ctx.enriched, results |-> results,
     report |-> written, json |-> written]

NoContext ==
    [raised |-> "", plots_dir |-> FALSE, accel |-> {}, hall |-> {},
     enriched |-> [columns |-> {}, rows |-> <<>>]]

\* analyze(data_dir) on a capture directory after its dump
Analyze ==
    /\ cmd_pc = "analyze"
    /\ enrich_ret # "pending"
    /\ cmd_pc' = "exited"
    /\ cmd_out' =
          IF ~accel_csv.exists \/ ~hall_csv.exists
          THEN Exit(1,
                    (IF accel_csv.exists THEN {}
                     ELSE {"Missing: MSG_ACCEL_SAMPLES.csv"})
                    \cup (IF hall_csv.exists THEN {}
                          ELSE {"Missing: MSG_HALL_EVENT.csv"}),
                    NoContext, <<>>, FALSE)
          ELSE LET ctx == load_and_enrich(accel_csv, hall_csv)
                   run == run_all_analyses(ctx)
               IN  IF ctx.raised # ""
                   THEN Exit(2, {"Analysis failed: " \o ctx.raised}, ctx, <<>>, FALSE)
                   ELSE IF run.raised # ""
                   THEN Exit(2, {"Analysis failed: " \o run.raised}, ctx,
                             run.results, FALSE)
                   ELSE Exit(0, {}, ctx, run.results, TRUE)
    /\ UNCHANGED <<captureVars, phaseVars, analysisVars, retryVars, seqVars>>

----------------------------------------------------------------------------
(* DeviceConnection.start_capture_with_retry, serial_comm.py *)

\* what _read_until_ok_or_err returns: "OK" or a line that starts with "ERR:"
OkResponses == {"OK"}

BusyResponses == {"ERR: Task busy"}

OtherErrors == {"ERR: Already recording"}

\* a line read from the device, or the empty line of a read timeout
DeviceLines == OkResponses \cup BusyResponses \cup OtherErrors \cup {""}

\* a mutant of attempts: one attempt more
attempts_one_more(max_retries) == 0..(max_retries + 1)

\* range(max_retries + 1)
attempts(max_retries) == 0..max_retries

\* a mutant of next_delay: the delay doubles
next_delay_doubled(delay) == FMul(delay, FromInt(2))

\* delay *= 1.5
next_delay(delay) == FMul(delay, Fin(3, 2))

\* the locals at the call: delay = retry_delay, before the first attempt
RetryStart(args) ==
    [attempt |-> 0, delay |-> args.retry_delay, responses |-> <<>>,
     on_retry_calls |-> <<>>, sleeps |-> <<>>, result |-> ""]

\* one pass of the loop of start_capture_with_retry: START_CAPTURE is sent
\* and the answer read; an empty line makes _read_until_ok_or_err raise
\* DeviceError
StartCaptureAttempt ==
    /\ retry_pc = "loop"
    /\ retry_st.attempt \in attempts(retry_in.max_retries)
    /\ \E line \in DeviceLines :
          LET sent == [retry_st EXCEPT !.responses = Append(@, line)]
          IN  IF line = ""
              THEN /\ retry_pc' = "raised"
                   /\ retry_st' = sent
              ELSE IF line \in OkResponses \/ line \notin BusyResponses
              THEN /\ retry_pc' = "returned"
                   /\ retry_st' = [sent EXCEPT !.result = line]
              ELSE IF retry_st.attempt < retry_in.max_retries
              THEN /\ retry_pc' = "loop"
                   /\ retry_st' =
                          [sent EXCEPT
                             !.on_retry_calls =
                                 IF retry_in.on_retry
                                 THEN Append(@, [attempt |-> retry_st.attempt + 1,
                                                 delay |-> retry_st.delay,
                                                 error |-> line])
                                 ELSE @,
                             !.sleeps = Append(@, retry_st.delay),
                             !.delay = next_delay(@),
                             !.attempt = @ + 1]
              ELSE IF retry_st.attempt + 1 \in attempts(retry_in.max_retries)
              THEN /\ retry_pc' = "loop"
                   /\ retry_st' = [sent EXCEPT !.attempt = @ + 1]
              ELSE /\ retry_pc' = "returned"
                   /\ retry_st' = [sent EXCEPT !.result = line]
    /\ UNCHANGED <<retry_in, captureVars, phaseVars, analysisVars, seqVars, cmdVars>>

----------------------------------------------------------------------------
(* run_test_sequence and MotorSafetyContext, telemetry/test.py *)

MAX_SPEED_POSITION == 10

\* what the device answers to a command: "OK" or a line that starts with "ERR:"
Replies == {"OK", "ERR: Already running", "ERR: Already stopped", "ERR: Failed"}

\* Ctrl+C is taken where the run waits, not between two statements.
\* What a step may raise while it waits on the device, the clock or the
\* operator: Ctrl+C, or any other exception (the DeviceError of a read
\* timeout, the AttributeError of a method the connection lacks, a KeyError)
Raised == {"KeyboardInterrupt", "Exception"}

\* conn.status(): the dict holds speed_position, or lacks it, or the call raises
StatusOutcomes == {"reported", "missing"} \cup Raised

\* the device moves one position up on an acknowledged SPEED_UP
speed_up(position) ==
    IF position < MAX_SPEED_POSITION THEN position + 1 ELSE position

\* a mutant of mark_motor_on: the flag is never set
mark_motor_on_forgotten(st) == st

\* MotorSafetyContext.mark_motor_on
mark_motor_on(st) == [st EXCEPT !.motor_started = TRUE]

\* MotorSafetyContext.mark_motor_off
mark_motor_off(st) == [st EXCEPT !.motor_started = FALSE]

\* the call of a method of the connection
called(st, method) == [st EXCEPT !.calls = Append(@, method)]

\* MotorSafetyContext.__init__ and the TestResult of run_test_sequence;
\* result.steps is kept as its length and the number of successful steps
SeqStart(args) ==
    [motor_started |-> FALSE, acked_at |-> 0,
     device_position |-> args.speed_position,
     current_position |-> 0, target_position |-> 0,
     calls |-> <<>>, visited |-> <<>>, step_ops |-> <<>>, recorded |-> {},
     steps |-> 0, successful |-> 0, error |-> "", aborted |-> FALSE,
     exc |-> "none"]

Goto(pc, st) == seq_pc' = pc /\ seq_st' = st

\* an exception leaves the with block through MotorSafetyContext.__exit__
Propagate(st, e) == Goto("exit", [st EXCEPT !.exc = e])

\* an exception inside the try of the loop: only KeyboardInterrupt is caught
RaiseInLoop(st, e) ==
    IF e = "KeyboardInterrupt" THEN Goto("interrupted", st) ELSE Propagate(st, e)

\* return result inside the with block
ReturnError(st, message) == Goto("exit", [st EXCEPT !.error = message])

\* the step fails: the loop is left with result.error set
BreakWithError(st, message) ==
    Goto("shutdown",
         [st EXCEPT !.error = message, !.steps = @ + 1])

seqOthers == <<seq_in, captureVars, phaseVars, analysisVars, retryVars, cmdVars>>

\* conn.rxreset()
ResetRx ==
    /\ seq_pc = "rxreset"
    /\ \E out \in Replies \cup Raised :
          LET st == called(seq_st, "rxreset")
          IN  IF out \in Raised THEN Propagate(st, out)
              ELSE Goto("motor_on", st)
    /\ UNCHANGED seqOthers

\* conn.motor_on() and safety.mark_motor_on()
MotorOn ==
    /\ seq_pc = "motor_on"
    /\ \E out \in Replies \cup Raised :
          LET st == called(seq_st, "motor_on")
          IN  IF out \in Raised THEN Propagate(st, out)
              ELSE IF out # "OK" /\ out # "ERR: Already running"
              THEN ReturnError(st, "Failed to power on motor")
              ELSE Goto("effect",
                        mark_motor_on([st EXCEPT !.acked_at = Len(st.calls)]))
    /\ UNCHANGED seqOthers

\* conn.button(CALIBRATION_EFFECT)
SetEffect ==
    /\ seq_pc = "effect"
    /\ \E out \in Replies \cup Raised :
          LET st == called(seq_st, "button")
          IN  IF out \in Raised THEN Propagate(st, out)
              ELSE IF out # "OK" THEN ReturnError(st, "Failed to set effect")
              ELSE Goto("status", st)
    /\ UNCHANGED seqOthers

\* the initial position: conn.status()
InitialStatus ==
    /\ seq_pc = "status"
    /\ \E out \in StatusOutcomes :
          LET st == called(seq_st, "status")
          IN  IF out \in Raised THEN Propagate(st, out)
              ELSE IF out = "missing"
              THEN ReturnError(st, "STATUS missing speed_position")
              ELSE Goto("next",
                        [st EXCEPT !.current_position = st.device_position])
    /\ UNCHANGED seqOthers

\* for target_position in range(1, MAX_SPEED_POSITION + 1)
NextTarget ==
    /\ seq_pc = "next"
    /\ IF seq_st.target_position < MAX_SPEED_POSITION
       THEN Goto("delete",
                 [seq_st EXCEPT !.target_position = @ + 1,
                                !.visited = Append(@, seq_st.target_position + 1),
                                !.step_ops = <<>>])
       ELSE Goto("shutdown", seq_st)
    /\ UNCHANGED seqOthers

\* 1. conn.delete(); DeviceConnection of serial_comm.py defines no delete,
\* start, stop or dump (it has delete_all_captures, start_capture, ...), so
\* with that class the call raises; a connection that has them answers
DeleteTelemetry ==
    /\ seq_pc = "delete"
    /\ \E out \in Replies \cup Raised :
          LET st == called(seq_st, "delete")
          IN  IF out \in Raised THEN RaiseInLoop(st, out)
              ELSE Goto("ramp", [st EXCEPT !.step_ops = Append(@, "delete")])
    /\ UNCHANGED seqOthers

\* 2. one pass of while current_position < target_position, or its end
RampUp ==
    /\ seq_pc = "ramp"
    /\ IF seq_st.current_position < seq_st.target_position
       THEN \E out \in Replies \cup Raised, status \in StatusOutcomes :
               LET pressed == called(seq_st, "button")
                   moved == [called(pressed, "status") EXCEPT
                                !.device_position = speed_up(@)]
               IN  IF out \in Raised THEN RaiseInLoop(pressed, out)
                   ELSE IF out # "OK"
                   THEN BreakWithError(pressed, "Failed to increase speed")
                   ELSE IF status \in Raised THEN RaiseInLoop(moved, status)
                   ELSE IF status = "missing" THEN RaiseInLoop(moved, "Exception")
                   ELSE Goto("ramp",
                             [moved EXCEPT
                                 !.current_position = moved.device_position])
       ELSE Goto("settle", [seq_st EXCEPT !.step_ops = Append(@, "ramp")])
    /\ UNCHANGED seqOthers

\* 3. time.sleep(settle_time) and Confirm.ask("Continue?")
Settle ==
    /\ seq_pc = "settle"
    /\ \E out \in {"continue", "abort", "KeyboardInterrupt"} :
          IF out \in Raised THEN RaiseInLoop(seq_st, out)
          ELSE IF out = "abort"
          THEN Goto("shutdown", [seq_st EXCEPT !.aborted = TRUE])
          ELSE Goto("start", [seq_st EXCEPT !.step_ops = Append(@, "settle")])
    /\ UNCHANGED seqOthers

\* the baseline conn.status() and 4. conn.start()
StartRecording ==
    /\ seq_pc = "start"
    /\ \E status \in {"reported"} \cup Raised, out \in Replies \cup Raised :
          LET counted == called(seq_st, "status")
              st == called(counted, "start")
          IN  IF status \in Raised THEN RaiseInLoop(counted, status)
              ELSE IF out \in Raised THEN RaiseInLoop(st, out)
              ELSE IF out # "OK"
              THEN BreakWithError(st, "Failed to start recording")
              ELSE Goto("record",
                        [st EXCEPT
                            !.step_ops = Append(@, "start"),
                            !.recorded =
                                @ \cup {[target |-> st.target_position,
                                         speed_position |->
                                             st.current_position]}])
    /\ UNCHANGED seqOthers

\* 5. time.sleep(record_time) and 6. conn.stop()
StopRecording ==
    /\ seq_pc = "record"
    /\ \E slept \in {"slept", "KeyboardInterrupt"}, out \in Replies \cup Raised :
          LET waited == [seq_st EXCEPT !.step_ops = Append(@, "wait")]
              st == called(waited, "stop")
          IN  IF slept \in Raised THEN RaiseInLoop(seq_st, slept)
              ELSE IF out \in Raised THEN RaiseInLoop(st, out)
              ELSE Goto("dump", [st EXCEPT !.step_ops = Append(@, "stop")])
    /\ UNCHANGED seqOthers

\* the conn.status() after recording, 7. conn.dump() and the saved files
DumpFiles ==
    /\ seq_pc = "dump"
    /\ \E status \in {"reported"} \cup Raised,
          out \in {"files", "no files"} \cup Raised :
          LET counted == called(seq_st, "status")
              st == called(counted, "dump")
          IN  IF status \in Raised THEN RaiseInLoop(counted, status)
              ELSE IF out \in Raised THEN RaiseInLoop(st, out)
              ELSE Goto("next",
                        [st EXCEPT
                            !.step_ops = Append(@, "dump"),
                            !.steps = @ + 1,
                            !.successful =
                                IF out = "files" THEN @ + 1 ELSE @])
    /\ UNCHANGED seqOthers

\* except KeyboardInterrupt: conn.stop() with every Exception swallowed
Interrupted ==
    /\ seq_pc = "interrupted"
    /\ \E out \in Replies \cup Raised :
          LET st == [called(seq_st, "stop") EXCEPT !.aborted = TRUE]
          IN  IF out = "KeyboardInterrupt" THEN Propagate(st, out)
              ELSE Goto("shutdown", st)
    /\ UNCHANGED seqOthers

\* Shutdown: conn.motor_off() and safety.mark_motor_off()
Shutdown ==
    /\ seq_pc = "shutdown"
    /\ \E out \in Replies \cup Raised :
          LET st == called(seq_st, "motor_off")
          IN  IF out \in Raised THEN Propagate(st, out)
              ELSE IF out = "OK" \/ out = "ERR: Already stopped"
              THEN Goto("exit", mark_motor_off(st))
              ELSE Goto("exit", st)
    /\ UNCHANGED seqOthers

\* MotorSafetyContext.__exit__: the exception in flight is not suppressed
SafetyExit ==
    /\ seq_pc = "exit"
    /\ IF seq_st.motor_started
       THEN \E out \in Replies \cup Raised :
               LET st == called(seq_st, "motor_off")
                   left == IF out = "KeyboardInterrupt"
                           THEN [st EXCEPT !.exc = out] ELSE st
               IN  Goto(IF left.exc = "none" THEN "returned" ELSE "raised", left)
       ELSE Goto(IF seq_st.exc = "none" THEN "returned" ELSE "raised", seq_st)
    /\ UNCHANGED seqOthers

----------------------------------------------------------------------------
(* Inputs of the synchronisation runs *)

PeriodVals == {0, 2}

HallEvents ==
    [timestamp_us : HallTimes, period_us : PeriodVals, rotation_num : 0..MaxHall]

\* rotation events in any capture order: distinct timestamps, rotation numbers
\* increasing with time
HallTables ==
    UNION {{h \in [1..n -> HallEvents] :
              \A i, j \in 1..n :
                 /\ (i # j => h[i].timestamp_us # h[j].timestamp_us)
                 /\ (h[i].timestamp_us < h[j].timestamp_us
                        => h[i].rotation_num < h[j].rotation_num)}
           : n \in 0..MaxHall}

RawSample(t, seq, x, y, z, gx, gy, gz) ==
    [timestamp_us |-> t, sequence_num |-> seq,
     x |-> x, y |-> y, z |-> z, gx |-> gx, gy |-> gy, gz |-> gz]

\* samples in arrival order (timestamps do not decrease)
SyncAccelTables ==
    UNION {{[i \in 1..n |-> RawSample(ts[i], i - 1, 16384, -3, 2048, 8, -6, 100)]
              : ts \in {f \in [1..n -> SampleTimes] :
                           \A i, j \in 1..n : i < j => f[i] <= f[j]}}
           : n \in 0..MaxSamples}

InitSync ==
    /\ hall_csv \in {[exists |-> TRUE, rows |-> h] : h \in HallTables}
    /\ raw_accel \in SyncAccelTables
    /\ accel_csv = [exists |-> TRUE, columns |-> RawColumns, rows |-> raw_accel]
    /\ enrich_ret = "pending"
    /\ dq_metrics = NoDataQuality
    /\ step_metrics = NoStepMetrics
    /\ PhaseIdle
    /\ AnalysisIdle
    /\ ToolIdle

NextSync == EnrichAccelCsv

SpecSync == InitSync /\ [][NextSync]_vars

----------------------------------------------------------------------------
(* Inputs of the data-quality runs *)

\* raw counts <<x, y, z, gx, gy, gz>> around the range limits
RawVectors ==
    << <<16384, 0, 2048, 8, -6, 100>>,
       <<32700, 4094, -4094, 3, 4, 32700>>,
       <<32699, 4093, -4093, 0, 0, 32699>>,
       <<-32700, -4094, 5000, -8, 6, -32700>>,
       <<-32768, -32768, 32767, 300, -300, -32768>>,
       <<32767, 5, -5, 1, 0, 32767>>,
       <<-32699, -4093, 0, 0, -1, -32699>>,
       <<5000, 0, 0, 0, 0, 0>>,
       <<0, 0, 0, 0, 0, 32700>>,
       <<-1, 1, -1, 1, -1, 1>> >>

FixedHall ==
    <<[timestamp_us |-> 1, period_us |-> 4, rotation_num |-> 0],
      [timestamp_us |-> 3, period_us |-> 2, rotation_num |-> 1]>>

UnitAccelTables ==
    UNION {{[i \in 1..n |->
                LET v == RawVectors[pick[i]]
                IN  RawSample(i, i - 1, v[1], v[2], v[3], v[4], v[5], v[6])]
              : pick \in [1..n -> 1..Len(RawVectors)]}
           : n \in 1..MaxUnitSamples}

\* sequence counters of 8 and of 16 bits
SeqModuli == {256, 65536}

RECURSIVE SeqNums(_, _, _)
SeqNums(start, steps, modulus) ==
    IF steps = <<>> THEN <<start>>
    ELSE <<start>> \o SeqNums((start + Head(steps)) % modulus, Tail(steps), modulus)

\* sequence numbers advancing by 1..MaxSeqStep modulo the counter width
SeqColumns ==
    UNION {{SeqNums(start, steps, m) :
               start \in {0, 10, m - 2}, steps \in [1..(n - 1) -> 1..MaxSeqStep]}
           : n \in 1..MaxSeqSamples, m \in SeqModuli}

SeqAccelTables ==
    {[i \in 1..Len(col) |-> RawSample(i, col[i], 16384, 0, 2048, 8, -6, 100)]
        : col \in SeqColumns}

InitQuality ==
    /\ hall_csv = [exists |-> TRUE, rows |-> FixedHall]
    /\ raw_accel \in UnitAccelTables \cup SeqAccelTables
    /\ accel_csv = [exists |-> TRUE, columns |-> RawColumns, rows |-> raw_accel]
    /\ enrich_ret = "pending"
    /\ dq_metrics = NoDataQuality
    /\ step_metrics = NoStepMetrics
    /\ PhaseIdle
    /\ AnalysisIdle
    /\ ToolIdle

NextQuality == EnrichAccelCsv \/ DataQualityAnalysis \/ ComputeStepMetrics

SpecQuality == InitQuality /\ [][NextQuality]_vars

----------------------------------------------------------------------------
(* Inputs of the phase runs *)

R2Vals == {15, 16, 100}

\* np.angle yields phases in (-180, 180] degrees
FitPhases == {-17997, -4500, -100, 100, 4500, 17997}

\* the aggregator takes any angle
AnyPhases == {100, 35900, 4500, 31500, 17997, 18000}

\* the loop takes positions in order and, per position, x_g then z_g
Estimates(phases, n) ==
    {[i \in 1..n |->
         [position |-> (i + 1) \div 2,
          axis |-> IF i % 2 = 1 THEN "x_g" ELSE "z_g",
          phase_deg |-> ph[i], r_squared |-> r2[i]]]
       : ph \in [1..n -> phases], r2 \in [1..n -> R2Vals]}

CaptureIdle ==
    /\ hall_csv = [exists |-> FALSE, rows |-> <<>>]
    /\ accel_csv = [exists |-> FALSE, columns |-> {}, rows |-> <<>>]
    /\ raw_accel = <<>>
    /\ enrich_ret = "pending"
    /\ dq_metrics = NoDataQuality
    /\ step_metrics = NoStepMetrics

InitAnalysis ==
    /\ phase_pc = "analysis"
    /\ fits \in UNION {Estimates(FitPhases, n) : n \in 0..MaxEstimates}
    /\ agg_in = <<>>

InitAggregate ==
    /\ phase_pc = "aggregate"
    /\ agg_in \in UNION {Estimates(AnyPhases, n) : n \in 0..MaxEstimates}
    /\ fits = <<>>

InitPhase ==
    /\ CaptureIdle
    /\ AnalysisIdle
    /\ ToolIdle
    /\ InitAnalysis \/ InitAggregate
    /\ phase_metrics = NoPhaseMetrics
    /\ agg_summary = EmptyDict

NextPhase == PhaseAnalysisByPosition \/ ComputePhaseSummary

SpecPhase == InitPhase /\ [][NextPhase]_vars

----------------------------------------------------------------------------
(* Inputs of the harmonic runs *)

BinOffsets == {0, 10}

\* a real array: an offset in every bin plus two impulses
ImpulseArray(offset, b1, h1, b2, h2) ==
    [den |-> 1,
     vals |-> [j \in BinIndex |->
                 CycInt(offset + (IF j = b1 THEN h1 ELSE 0) + (IF j = b2 THEN h2 ELSE 0))]]

ImpulseArrays ==
    {ImpulseArray(c, b1, h1, b2, h2) :
        c \in BinOffsets, b1 \in {0, 7}, h1 \in {-2, 3}, b2 \in {7, 36}, h2 \in {0, 1}}

InitIsolate ==
    /\ harm_pc = "isolate"
    /\ full_bins \in ImpulseArrays

Amplitudes == {1, 3}

\* the phase phi of a sinusoid, in bins of 5 degrees
PhaseSteps == {0, 9, 18, 27, 36, 45, 63}

\* v[j] = c + A sin(theta_j + phi), theta_j = 2 pi j / N_BINS, phi = 2 pi s / N_BINS:
\* twice v[j] is 2 c + A (zeta^(j+s) - zeta^(-j-s)) / i, and 1 / i = zeta^(-18)
SinusoidArray(c, A, s) ==
    [den |-> 2,
     vals |-> [j \in BinIndex |->
                 CycAdd(CycInt(2 * c),
                        CycScale(A, CycSub(CycMulZeta(CycInt(1), j + s - N_BINS \div 4),
                                           CycMulZeta(CycInt(1), -j - s - N_BINS \div 4))))]]

SinusoidArrays ==
    {SinusoidArray(c, A, s) : c \in BinOffsets, A \in Amplitudes, s \in PhaseSteps}

InitExtract ==
    /\ harm_pc = "extract"
    /\ full_bins \in SinusoidArrays

InitHarmonic ==
    /\ CaptureIdle
    /\ PhaseIdle
    /\ ResolverIdle /\ SegmentIdle /\ SliceIdle
    /\ ToolIdle
    /\ InitIsolate \/ InitExtract
    /\ harm_out = <<>>

NextHarmonic == IsolateHarmonic \/ ExtractHarmonic

SpecHarmonic == InitHarmonic /\ [][NextHarmonic]_vars

----------------------------------------------------------------------------
(* Inputs of the speed-segment runs *)

HallPacketCounts == {0, 1, 2}

SegRpms == {649, 1200, 1201}

\* speed_log.csv: absent, in the old format without hall_packets, or with the
\* per-position counts the capture writes for the positions 1..n
SpeedLogs ==
    {[exists |-> FALSE, columns |-> {}, rows |-> <<>>]}
    \cup {[exists |-> TRUE, columns |-> {"position"},
           rows |-> [i \in 1..n |-> [position |-> i]]] : n \in 0..MaxLogRows}
    \cup UNION {{[exists |-> TRUE, columns |-> {"position", "hall_packets"},
                  rows |-> [i \in 1..n |-> [position |-> i, hall_packets |-> h[i]]]] :
                    h \in [1..n -> HallPacketCounts]} : n \in 0..MaxLogRows}

\* the enriched table: rotation numbers in arrival order
SegEnriched ==
    UNION {{[columns |-> {"rotation_num", "rpm"},
             rows |-> [k \in 1..n |-> [rotation_num |-> r[k], rpm |-> v[k]]]] :
               r \in {q \in [1..n -> 0..MaxRotation] : \A k \in 1..(n - 1) : q[k] <= q[k + 1]},
               v \in [1..n -> SegRpms]} : n \in 0..MaxSegSamples}

InitSegments ==
    /\ CaptureIdle
    /\ PhaseIdle
    /\ HarmonicIdle /\ ResolverIdle /\ SliceIdle
    /\ ToolIdle
    /\ seg_pc = "load"
    /\ seg_ctx \in [speed_log : SpeedLogs, enriched : SegEnriched]
    /\ seg_out = <<>>

NextSegments == LoadAndEnrich \/ PhaseAnalysis

SpecSegments == InitSegments /\ [][NextSegments]_vars

----------------------------------------------------------------------------
(* Inputs of the resolver runs *)

ResolverAmplitudes == {0, 1, 2}

\* the angle of bin 1 in bins of 5 degrees
ResolverShifts == {0, 7, 18, 35, 36, 71}

\* a spectrum with a mean, a first harmonic a * zeta^shift and a third harmonic
Spectrum(a, shift) ==
    [den |-> 1,
     vals |-> [k \in RfftIndex |->
                  IF k = 0 THEN CycInt(5)
                  ELSE IF k = 1 THEN CycMulZeta(CycInt(a), shift)
                  ELSE IF k = 3 THEN CycInt(1)
                  ELSE CycZero]]

InitResolver ==
    /\ CaptureIdle
    /\ PhaseIdle
    /\ HarmonicIdle /\ SegmentIdle /\ SliceIdle
    /\ ToolIdle
    /\ res_pc = "filter"
    /\ res_in \in {[x_fft |-> Spectrum(a, p), z_fft |-> Spectrum(b, q)] :
                     a \in ResolverAmplitudes, p \in ResolverShifts,
                     b \in ResolverAmplitudes, q \in ResolverShifts}
    /\ res_out = <<>>

NextResolver == Generate1xFilteredPlot

SpecResolver == InitResolver /\ [][NextResolver]_vars

----------------------------------------------------------------------------
(* Inputs of the slice runs *)

\* samples of a position before and after the first two seconds are dropped
SampleCounts ==
    {[n_samples |-> 99, n_steady |-> 60], [n_samples |-> 100, n_steady |-> 60],
     [n_samples |-> 101, n_steady |-> 60], [n_samples |-> 250, n_steady |-> 100],
     [n_samples |-> 250, n_steady |-> 150]}

\* phase bins covered by all samples and by those of the steady state
BinCounts ==
    {[bins_all |-> 57, bins_steady |-> 57], [bins_all |-> N_BINS, bins_steady |-> 57],
     [bins_all |-> N_BINS, bins_steady |-> 58]}

FitFailed == [converged |-> FALSE, r_squared |-> 0]

FitGood == [converged |-> TRUE, r_squared |-> 90]

FitPoor == [converged |-> TRUE, r_squared |-> 10]

FitPairs ==
    {[x_g |-> FitGood, z_g |-> FitGood], [x_g |-> FitFailed, z_g |-> FitGood],
     [x_g |-> FitPoor, z_g |-> FitFailed]}

PositionSlices(n) ==
    {[i \in 1..n |->
         [position |-> i,
          n_samples |-> c[i].n_samples, n_steady |-> c[i].n_steady,
          bins_all |-> b[i].bins_all, bins_steady |-> b[i].bins_steady,
          fit |-> f[i]]] :
       c \in [1..n -> SampleCounts], b \in [1..n -> BinCounts], f \in [1..n -> FitPairs]}

HighSpeedBands ==
    {[n_samples |-> n, bins |-> b] : n \in {100, 101, 250}, b \in {57, 58, N_BINS}}

InitSlices ==
    /\ CaptureIdle
    /\ PhaseIdle
    /\ HarmonicIdle /\ ResolverIdle /\ SegmentIdle
    /\ ToolIdle
    /\ slice_pc = "analysis"
    /\ \/ slices \in {[path |-> "by_position", positions |-> sl] :
                        sl \in UNION {PositionSlices(n) : n \in 1..MaxPositions}}
       \/ slices \in {[path |-> "fallback", high_speed |-> band] : band \in HighSpeedBands}
    /\ slice_metrics = <<>>

NextSlices == AnalyseSlicesByPosition \/ AnalyseSlicesFallback

SpecSlices == InitSlices /\ [][NextSlices]_vars

----------------------------------------------------------------------------
(* Inputs of the retry runs *)

\* retry_delay in seconds: the default 0.5, and 1
RetryDelays == {Fin(1, 2), FromInt(1)}

InitRetry ==
    /\ CaptureIdle
    /\ PhaseIdle
    /\ AnalysisIdle
    /\ retry_pc = "loop"
    /\ retry_in \in [max_retries : 0..MaxRetries, retry_delay : RetryDelays,
                     on_retry : BOOLEAN]
    /\ retry_st = RetryStart(retry_in)
    /\ SeqIdle
    /\ CmdIdle

NextRetry == StartCaptureAttempt

\* the call proceeds: every read ends with a line or with the serial timeout
SpecRetry == InitRetry /\ [][NextRetry]_vars /\ WF_vars(NextRetry)

----------------------------------------------------------------------------
(* Inputs of the test sequence runs *)

InitSequence ==
    /\ CaptureIdle
    /\ PhaseIdle
    /\ AnalysisIdle
    /\ RetryIdle
    /\ CmdIdle
    /\ seq_pc = "rxreset"
    /\ seq_in \in [speed_position : 0..MAX_SPEED_POSITION]
    /\ seq_st = SeqStart(seq_in)

NextSequence ==
    \/ ResetRx
    \/ MotorOn
    \/ SetEffect
    \/ InitialStatus
    \/ NextTarget
    \/ DeleteTelemetry
    \/ RampUp
    \/ Settle
    \/ StartRecording
    \/ StopRecording
    \/ DumpFiles
    \/ Interrupted
    \/ Shutdown
    \/ SafetyExit

SpecSequence == InitSequence /\ [][NextSequence]_vars

----------------------------------------------------------------------------
(* Inputs of the analyze runs *)

\* rotation events as dumped: distinct timestamps, rotation numbers that do
\* not decrease with time (a repeated packet repeats its rotation number)
CaptureHallTables ==
    UNION {{h \in [1..n -> HallEvents] :
              \A i, j \in 1..n :
                 /\ (i # j => h[i].timestamp_us # h[j].timestamp_us)
                 /\ (h[i].timestamp_us < h[j].timestamp_us
                        => h[i].rotation_num <= h[j].rotation_num)}
           : n \in 0..MaxHall}

\* a capture directory after save_csv_files: a file may be absent, or hold
\* only its header
InitPipeline ==
    /\ hall_csv \in {[exists |-> TRUE, rows |-> h] : h \in CaptureHallTables}
                      \cup {[exists |-> FALSE, rows |-> <<>>]}
    /\ raw_accel \in SyncAccelTables
    /\ accel_csv \in {[exists |-> TRUE, columns |-> RawColumns, rows |-> raw_accel]}
                       \cup {a \in {[exists |-> FALSE, columns |-> {}, rows |-> <<>>]} :
                               raw_accel = <<>>}
    /\ enrich_ret = "pending"
    /\ dq_metrics = NoDataQuality
    /\ step_metrics = NoStepMetrics
    /\ PhaseIdle
    /\ AnalysisIdle
    /\ RetryIdle
    /\ SeqIdle
    /\ cmd_pc = "analyze"
    /\ cmd_out = <<>>

NextPipeline == EnrichAccelCsv \/ Analyze

SpecPipeline == InitPipeline /\ [][NextPipeline]_vars

----------------------------------------------------------------------------
(* Stream Synchronizer properties *)

Enriched == enrich_ret = "true"

EnrichedRows == {accel_csv.rows[i] : i \in 1..Len(accel_csv.rows)}

Events == {hall_csv.rows[i] : i \in 1..Len(hall_csv.rows)}

\* the rotation events that are not after time t
EventsUpTo(t) == {e \in Events : e.timestamp_us <= t}

LatestEvent(S) == CHOOSE e \in S : \A f \in S : f.timestamp_us <= e.timestamp_us

\* a sample assigned rotation r lies in [event r, event r+1)
InRotationInterval(row) ==
    \A e \in Events :
       /\ (e.rotation_num = row.rotation_num => row.timestamp_us >= e.timestamp_us)
       /\ (e.rotation_num = row.rotation_num + 1 => row.timestamp_us < e.timestamp_us)

InDegreeRange(a) ==
    IsFin(a) /\ FLeq(FromInt(0), a) /\ FLess(a, FromInt(FULL_TURN_DEG))

\* C2: every row of the enriched table has 0 <= angle_deg < 360, for every
\* sample timestamp and every period_us present in the rotation-event table.
C2_AngleInRange ==
    Enriched => \A row \in EnrichedRows : InDegreeRange(row.angle_deg)

\* C3: a sample at time t receives the rotation_num and period_us of the
\* latest event with timestamp <= t and micros_since_hall = t - that
\* timestamp (>= 0); with no such event it receives rotation_num 0,
\* micros_since_hall 0 and angle_deg 0.
C3_LatestEventAssignment ==
    Enriched =>
        \A row \in EnrichedRows :
            LET S == EventsUpTo(row.timestamp_us)
            IN  IF S # {}
                THEN LET e == LatestEvent(S)
                     IN  /\ row.rotation_num = e.rotation_num
                         /\ row.micros_since_hall = row.timestamp_us - e.timestamp_us
                         /\ row.micros_since_hall >= 0
                         /\ row.rpm = FDiv(FromInt(US_PER_MINUTE), FromInt(e.period_us))
                         /\ row.angle_deg = angle_deg(row.micros_since_hall, e.period_us)
                ELSE /\ row.rotation_num = 0
                     /\ row.micros_since_hall = 0
                     /\ row.angle_deg = FromInt(0)

\* one sample exactly at an event's timestamp with an earlier event present,
\* and one sample before every event
C3_Witness ==
    /\ Enriched
    /\ \E row \in EnrichedRows :
          \E e, f \in Events :
             e.timestamp_us = row.timestamp_us /\ f.timestamp_us < e.timestamp_us
    /\ \E row \in EnrichedRows : EventsUpTo(row.timestamp_us) = {}

\* a rotation event whose period implies more than 10,000 RPM
ImplausibleEvent(e) == e.period_us * GLITCH_RPM < US_PER_MINUTE

\* the row takes its rotation_num and micros_since_hall from event e
DerivedFrom(row, e) ==
    /\ e.timestamp_us <= row.timestamp_us
    /\ row.rotation_num = e.rotation_num
    /\ row.micros_since_hall = row.timestamp_us - e.timestamp_us

\* C22: a rotation event whose period_us implies an RPM above 10,000 is
\* filtered out before angle and RPM are computed: no enriched sample has
\* its rotation_num, micros_since_hall, angle_deg or rpm derived from such
\* an event
C22_ImplausibleEventsFiltered ==
    Enriched =>
        \A row \in EnrichedRows :
            /\ ~FLess(FromInt(GLITCH_RPM), row.rpm)
            /\ row.rpm.k # "inf"
            /\ \A e \in Events : ImplausibleEvent(e) => ~DerivedFrom(row, e)

\* the raw counts of a sample
RawCounts(row) == [c \in {"x", "y", "z", "gx", "gy", "gz"} |-> row[c]]

\* C24: enrichment has no side effect on its input: after enrich_accel_csv
\* has run, the raw accelerometer table it was given is unchanged and still
\* available, with the raw counts x, y, z, gx, gy, gz of every sample
C24_RawTableKept ==
    enrich_ret # "pending" =>
        /\ accel_csv.exists
        /\ RawColumns \subseteq accel_csv.columns
        /\ Len(accel_csv.rows) = Len(raw_accel)
        /\ \A i \in 1..Len(raw_accel) : RawCounts(accel_csv.rows[i]) = RawCounts(raw_accel[i])

----------------------------------------------------------------------------
(* Circular Aggregator and Balancing Resolver properties *)

HALF_TURN_TENTHS == HALF_TURN_CD \div 10

FULL_TURN_TENTHS == FULL_TURN_CD \div 10

HasKey(d, k) == k \in DOMAIN d

\* the summary of the pipeline once it has run, else of the aggregator
ReportedSummary == IF phase_pc = "analysed" THEN phase_metrics.phase_summary ELSE agg_summary

\* the estimates that summary was computed from
SummarisedEstimates == IF phase_pc = "analysed" THEN fits ELSE agg_in

ComplementInSummary(d) ==
    HasKey(d, "counterweight_deg") =>
        d.counterweight_deg = (d.mean_phase_deg + HALF_TURN_TENTHS) % FULL_TURN_TENTHS

ComplementInBalancing(d) ==
    HasKey(d, "counterweight_position_deg") =>
        d.counterweight_position_deg = (d.peak_imbalance_deg + 180) % 360

\* C4: every reported counterweight angle equals (heavy-spot angle + 180)
\* mod 360 computed from the reported values: counterweight_deg against the
\* one-decimal mean_phase_deg in the phase summary, and
\* counterweight_position_deg against peak_imbalance_deg in the balancing record
C4_CounterweightIsComplement ==
    /\ ComplementInSummary(phase_metrics.phase_summary)
    /\ ComplementInSummary(agg_summary)
    /\ ComplementInBalancing(phase_metrics.balancing)

\* C5: when no phase estimate exceeds the confidence floor (none produced, or
\* all with r_squared <= 0.15), the phase summary of the per-position analysis
\* reports an estimate count of 0 and holds no mean phase and no counterweight
C5_EmptyConfidenceSetReportsZero ==
    (phase_pc = "analysed" /\ \A i \in 1..Len(fits) : fits[i].r_squared <= R2_FLOOR) =>
        /\ HasKey(phase_metrics.phase_summary, "n_estimates")
        /\ phase_metrics.phase_summary.n_estimates = 0
        /\ ~HasKey(phase_metrics.phase_summary, "mean_phase_deg")
        /\ ~HasKey(phase_metrics.phase_summary, "counterweight_deg")

\* two retained estimates of equal weight at phi and 360 - phi, 0 < phi < 90
SymmetricAboutZero(es) ==
    /\ Len(es) = 2
    /\ retained(es[1]) /\ retained(es[2])
    /\ es[1].r_squared = es[2].r_squared
    /\ \E i, j \in 1..2 :
          /\ i # j
          /\ es[i].phase_deg % FULL_TURN_CD > 0
          /\ es[i].phase_deg % FULL_TURN_CD < QUARTER_TURN_CD
          /\ (es[i].phase_deg + es[j].phase_deg) % FULL_TURN_CD = 0

\* C6: the mean respects wraparound: two equal-weight estimates placed
\* symmetrically about 0 degrees, at phi and 360 - phi with 0 < phi < 90,
\* aggregate to a mean of 0 degrees (mod 360), not 180
C6_MeanRespectsWraparound ==
    (phase_pc \in {"analysed", "aggregated"} /\ SymmetricAboutZero(SummarisedEstimates)) =>
        /\ HasKey(ReportedSummary, "mean_phase_deg")
        /\ ReportedSummary.mean_phase_deg % FULL_TURN_TENTHS = 0

C6_Witness ==
    /\ phase_pc = "aggregated"
    /\ SymmetricAboutZero(agg_in)
    /\ agg_in[1].phase_deg = 35900
    /\ agg_in[2].phase_deg = 100
    /\ agg_summary.n_estimates = 2
    /\ agg_summary.mean_phase_deg = 0

Range(es) == {es[i] : i \in 1..Len(es)}

AboveFloor(es) == {i \in 1..Len(es) : es[i].r_squared > R2_FLOOR}

\* the sum over the estimates above the floor of r_squared times f(phase_deg)
WeightedSum(es, f(_)) ==
    SumSeq([i \in 1..Len(es) |->
               IF i \in AboveFloor(es) THEN es[i].r_squared * f(es[i].phase_deg) ELSE 0])

\* C18: an estimate contributes to the aggregated mean phase if and only if
\* its r_squared is strictly greater than 0.15: the summary lists exactly
\* those estimates, n_estimates is their number, and the mean is the
\* direction of their resultant with each weighted by its r_squared
C18_FloorAndWeights ==
    (phase_pc \in {"analysed", "aggregated"} /\ HasKey(ReportedSummary, "n_estimates")) =>
        /\ ReportedSummary.n_estimates = Cardinality(AboveFloor(SummarisedEstimates))
        /\ AboveFloor(SummarisedEstimates) # {} =>
              /\ Len(ReportedSummary.estimates) = ReportedSummary.n_estimates
              /\ \A e \in Range(SummarisedEstimates) :
                    e \in Range(ReportedSummary.estimates) <=> e.r_squared > R2_FLOOR
              /\ ReportedSummary.mean_phase_deg =
                    round1(arctan2_deg(WeightedSum(SummarisedEstimates, sin_deg),
                                       WeightedSum(SummarisedEstimates, cos_deg))
                             % FULL_TURN_CD)
        /\ AboveFloor(SummarisedEstimates) = {} => ~HasKey(ReportedSummary, "mean_phase_deg")

\* an estimate at the floor is left out and one just above it is used, and
\* unequal weights pull the mean towards the heavier estimate
C18_Witness ==
    /\ phase_pc = "aggregated"
    /\ Len(agg_in) = 2
    /\ agg_in[1].r_squared = R2_FLOOR
    /\ agg_in[2].r_squared = R2_FLOOR + 1
    /\ agg_in[1].phase_deg # agg_in[2].phase_deg
    /\ agg_summary.n_estimates = 1
    /\ agg_summary.mean_phase_deg * 10 = agg_in[2].phase_deg

C18_WeightWitness ==
    /\ phase_pc = "aggregated"
    /\ Len(agg_in) = 2
    /\ agg_in[1].r_squared = 100 /\ agg_in[1].phase_deg = 100
    /\ agg_in[2].r_squared = R2_FLOOR + 1 /\ agg_in[2].phase_deg = 4500
    /\ agg_summary.n_estimates = 2
    /\ agg_summary.mean_phase_deg < 225

InTurnTenths(a) == 0 <= a /\ a < FULL_TURN_TENTHS

InTurnCd(a) == 0 <= a /\ a < FULL_TURN_CD

\* C19: every phase angle the analysis reports lies in [0, 360): the
\* phase_deg recorded per position and axis, the phase_deg of the estimates
\* passed to the aggregator, and the mean_phase_deg and counterweight_deg of
\* the summary
C19_ReportedPhasesInTurn ==
    phase_pc = "analysed" =>
        /\ \A i \in 1..Len(phase_metrics.phase_by_position) :
              InTurnTenths(phase_metrics.phase_by_position[i].phase_deg)
        /\ HasKey(phase_metrics.phase_summary, "estimates") =>
              \A e \in Range(phase_metrics.phase_summary.estimates) : InTurnCd(e.phase_deg)
        /\ HasKey(phase_metrics.phase_summary, "mean_phase_deg") =>
              /\ InTurnTenths(phase_metrics.phase_summary.mean_phase_deg)
              /\ InTurnTenths(phase_metrics.phase_summary.counterweight_deg)

----------------------------------------------------------------------------
(* Data-quality and unit-conversion properties *)

RawSeq == Column(raw_accel, "sequence_num")

RawSeqDiffs == diff(RawSeq)

ContiguousMod16 ==
    \A i \in 1..(Len(RawSeq) - 1) : RawSeq[i + 1] = (RawSeq[i] + 1) % 65536

\* C8: a stream whose 16-bit sequence numbers are contiguous modulo
\* wraparound is reported with zero gaps and zero dropped samples by
\* data_quality_analysis and by compute_step_metrics.
C8_WrapIsNoGap ==
    ContiguousMod16 =>
        /\ (dq_metrics.done =>
               /\ dq_metrics.sequence_gaps.gap_count = 0
               /\ dq_metrics.sequence_gaps.total_dropped_samples = 0)
        /\ ((step_metrics.done /\ ~step_metrics.none) =>
               step_metrics.dropped_samples = 0)

C10_OneSaturationCriterion ==
    /\ Enriched =>
          \A i \in 1..Len(raw_accel) :
             /\ accel_csv.rows[i].is_x_saturated = (Abs(raw_accel[i].x) >= 32700)
             /\ accel_csv.rows[i].is_gz_saturated = (Abs(raw_accel[i].gz) >= 32700)
    /\ dq_metrics.done =>
          \A axis \in {"x", "y", "z"} :
             dq_metrics.saturation[axis] =
                 Cardinality({i \in 1..Len(raw_accel) : Abs(raw_accel[i][axis]) >= 32700})

----------------------------------------------------------------------------
(* Harmonic isolation properties *)

\* two values with their denominators are the same number
SameValue(a, da, b, db) == CycIsZero(CycSub(CycScale(db, a), CycScale(da, b)))

\* the forward transform of the 1x-isolated reconstruction
Respectrum == rfft(harm_out.signal_1x)

\* C11: harmonic isolation is idempotent: forward transform, zeroing every
\* bin but order 1, inverse transform to n_bins samples and forward transform
\* again give a spectrum equal to the original at order 1 and zero elsewhere
C11_IsolationIdempotent ==
    harm_pc = "isolated" =>
        /\ SameValue(Respectrum.vals[1], Respectrum.den, harm_out.fft.vals[1], harm_out.fft.den)
        /\ \A k \in RfftIndex \ {1} : CycIsZero(Respectrum.vals[k])

C11_Witness ==
    /\ harm_pc = "isolated"
    /\ ~CycIsZero(harm_out.fft.vals[0])
    /\ ~CycIsZero(harm_out.fft.vals[1])
    /\ ~CycIsZero(harm_out.fft.vals[2])
    /\ ~CycIsZero(harm_out.fft.vals[HALF_BINS])
    /\ \A k \in RfftIndex \ {1} : CycIsZero(Respectrum.vals[k])

\* C12: for binned values c + A sin(theta + phi) the 1x magnitude reported is
\* the amplitude A and the 1x phase is phi (72 bins of 10 + 3 sin(theta + 45
\* degrees): magnitude 3.0, phase 45 degrees), and r_squared of the fit is 1
C12_SinusoidRecovered ==
    \A c \in BinOffsets, A \in Amplitudes, s \in PhaseSteps :
        (harm_pc = "extracted" /\ harm_out.converged /\ full_bins = SinusoidArray(c, A, s)) =>
            /\ harm_out.magnitude_g = 100 * A
            /\ (harm_out.phase_deg - 10 * (BIN_WIDTH_CD \div 100) * s) % FULL_TURN_TENTHS = 0
            /\ harm_out.r_squared = 100

----------------------------------------------------------------------------
(* Speed-segment properties *)

SegRows == seg_ctx.enriched.rows

LogRows == seg_ctx.speed_log.rows

HasHallPackets == seg_ctx.speed_log.exists /\ "hall_packets" \in seg_ctx.speed_log.columns

\* B_i = h_1 + ... + h_i, B_0 = 0
Boundary(i) == SumSeq(SubSeq(Column(LogRows, "hall_packets"), 1, i))

InSegment(r, i) == Boundary(i - 1) <= r /\ r < Boundary(i)

Assigned == seg_pc \in {"loaded", "analysed"} /\ HasHallPackets

C13_EmptySegmentWitness ==
    /\ Assigned
    /\ Len(LogRows) = 2 /\ LogRows[1].hall_packets = 0
    /\ Len(SegRows) > 0
    /\ \A k \in 1..Len(SegRows) : SegRows[k].speed_position = FromInt(2)

BeyondLast(r) == r >= Boundary(Len(LogRows))

\* C14: with a sample at or beyond the last cumulative boundary the assignment
\* completes without raising, gives that sample no position (NaN) and gives
\* every in-range sample its position
C14_OutOfRangeGetsNaN ==
    (seg_pc # "load" /\ HasHallPackets
        /\ \E k \in 1..Len(SegRows) : BeyondLast(SegRows[k].rotation_num)) =>
        /\ seg_pc # "raised"
        /\ \A k \in 1..Len(SegRows) :
              IF BeyondLast(SegRows[k].rotation_num)
              THEN SegRows[k].speed_position = NaN
              ELSE \E i \in 1..Len(LogRows) :
                      /\ InSegment(SegRows[k].rotation_num, i)
                      /\ SegRows[k].speed_position = FromInt(LogRows[i].position)

\* some sample was given a speed position from the speed log
PositionsAvailable ==
    /\ seg_ctx.speed_log.exists
    /\ "speed_position" \in seg_ctx.enriched.columns
    /\ \E k \in 1..Len(SegRows) : SegRows[k].speed_position # NaN

\* C15: the per-position path runs exactly when speed positions from a speed
\* log are available; otherwise (no speed log, or a speed log that gives no
\* sample a position, such as one without hall_packets) the legacy path runs
\* with the bands rpm < 650 and rpm > 1200
C15_FallbackWithoutPositions ==
    seg_pc = "analysed" =>
        /\ seg_out.path = "by_position" <=> PositionsAvailable
        /\ ~PositionsAvailable =>
              /\ seg_out.path = "fallback"
              /\ seg_out.low_speed = {k \in 1..Len(SegRows) : SegRows[k].rpm < 650}
              /\ seg_out.high_speed = {k \in 1..Len(SegRows) : SegRows[k].rpm > 1200}

----------------------------------------------------------------------------
(* Slice properties *)

\* enough data: at least 100 samples and at least 80% of the bins covered
Sufficient(n, bins) == n >= 100 /\ 10 * bins >= 8 * N_BINS

SliceLeft(i) == steady_state(slices.positions[i])

HasAxisResult(i, axis) ==
    /\ i \in DOMAIN slice_metrics.phase_by_position
    /\ axis \in DOMAIN slice_metrics.phase_by_position[i].axes

ProducedFrequencyResult == slice_metrics.frequency_analysis # {} \/ slice_metrics.balancing # {}

\* C16: no per-axis estimate, frequency analysis or balancing record comes
\* from a binned array with fewer than 80% of the bins covered or from a speed
\* position left with fewer than 100 samples, on either path, and a skipped
\* slice does not keep the other positions and axes from being analysed
C16_NoResultFromInsufficientData ==
    /\ (slice_pc = "analysed" /\ slices.path = "by_position") =>
          /\ \A i \in 1..Len(slices.positions), axis \in Axes :
                HasAxisResult(i, axis) <=> Sufficient(SliceLeft(i).n, SliceLeft(i).bins)
          /\ ProducedFrequencyResult =>
                Sufficient(SliceLeft(Len(slices.positions)).n,
                           SliceLeft(Len(slices.positions)).bins)
    /\ (slice_pc = "analysed" /\ slices.path = "fallback") =>
          (ProducedFrequencyResult =>
              Sufficient(slices.high_speed.n_samples, slices.high_speed.bins))

FitFailedFor(i, axis) == ~slices.positions[i].fit[axis].converged

\* C17: when the fit of a (position, axis) pair does not converge nothing is
\* recorded for the pair, neither in the per-position results nor among the
\* estimates handed to the aggregator, and the other pairs are still analysed
C17_FailedFitDiscarded ==
    (slice_pc = "analysed" /\ slices.path = "by_position") =>
        \A i \in 1..Len(slices.positions), axis \in Axes :
            /\ FitFailedFor(i, axis) =>
                  /\ ~HasAxisResult(i, axis)
                  /\ \A k \in 1..Len(slice_metrics.estimates) :
                        ~(slice_metrics.estimates[k].position = slices.positions[i].position
                            /\ slice_metrics.estimates[k].axis = axis)
            /\ (~FitFailedFor(i, axis) /\ Sufficient(SliceLeft(i).n, SliceLeft(i).bins)) =>
                  HasAxisResult(i, axis)

----------------------------------------------------------------------------
(* Balancing Resolver properties *)

RECURSIVE Tabulated(_, _, _)
\* the values f[lo], ..., f[hi] as a sequence
Tabulated(f, lo, hi) ==
    IF lo = hi THEN <<f[lo]>>
    ELSE LET mid == (lo + hi) \div 2
         IN  Tabulated(f, lo, mid) \o Tabulated(f, mid + 1, hi)

\* the combined 1x reconstruction of the spectra handed to the resolver:
\* element j + 1 is the value at bin j
Combined ==
    Tabulated(combined_1x(irfft(isolate(res_in.x_fft, 1)), irfft(isolate(res_in.z_fft, 1))),
              0, N_BINS - 1)

\* bin i holds the maximum of c and no lower bin does
LowestMaximalBin(c, i) ==
    /\ \A j \in BinIndex : c[j + 1] <= c[i + 1]
    /\ \A j \in 0..(i - 1) : c[j + 1] < c[i + 1]

\* C20: the heavy spot is the angle i * 360 / n_bins of the lowest bin i at
\* which the combined 1x reconstruction is maximal, the counterweight is the
\* diametrically opposite angle, and both are multiples of the bin width in
\* [0, 360)
C20_HeavySpotIsArgmax ==
    res_pc = "filtered" =>
        /\ LET c == Combined
           IN  \E i \in BinIndex :
                  /\ LowestMaximalBin(c, i)
                  /\ res_out.peak_imbalance_deg * N_BINS = i * 360
        /\ res_out.counterweight_position_deg = (res_out.peak_imbalance_deg + 180) % 360
        /\ \A a \in {res_out.peak_imbalance_deg, res_out.counterweight_position_deg} :
              /\ 0 <= a /\ a < 360
              /\ (a * N_BINS) % 360 = 0

\* x alone with bin 1 = 2 zeta^7: |cos(5 (j + 7) degrees)| peaks at the bins
\* 29 and 65, and the lower one is reported
C20_Witness ==
    /\ res_pc = "filtered"
    /\ res_in.x_fft.vals[1] = CycMulZeta(CycInt(2), 7)
    /\ res_in.z_fft.vals[1] = CycZero
    /\ LET c == Combined
       IN  c[30] = c[66] /\ c[30] > c[29] /\ c[30] > c[31]
    /\ res_out.peak_imbalance_deg = 145
    /\ res_out.counterweight_position_deg = 325

----------------------------------------------------------------------------
(* Capture retry properties *)

Sent == Len(retry_st.responses)

IsOk(line) == line = "OK"

IsTaskBusy(line) == line = "ERR: Task busy"

RetrySafe ==
    /\ Sent <= retry_in.max_retries + 1
    /\ \A k \in 1..(Sent - 1) : IsTaskBusy(retry_st.responses[k])
    /\ retry_pc = "loop" => (Sent <= retry_in.max_retries /\ Sent = retry_st.attempt)
    /\ retry_pc = "returned" =>
          /\ Sent >= 1
          /\ retry_st.result = retry_st.responses[Sent]
          /\ IsTaskBusy(retry_st.result) => Sent = retry_in.max_retries + 1
    /\ (retry_pc # "idle" /\ Sent >= 1 /\ ~IsTaskBusy(retry_st.responses[Sent])) =>
          retry_pc \in {"returned", "raised"}

RECURSIVE PowerOfTwo(_)
PowerOfTwo(n) == IF n = 0 THEN 1 ELSE 2 * PowerOfTwo(n - 1)

\* C27: the delay before the k-th retry is retry_delay * 2^(k-1), and that
\* delay is the value passed to on_retry for retry k
C27_DelayDoubles ==
    retry_pc # "idle" =>
        /\ \A k \in 1..Len(retry_st.sleeps) :
              retry_st.sleeps[k] = FMul(retry_in.retry_delay, FromInt(PowerOfTwo(k - 1)))
        /\ \A k \in 1..Len(retry_st.on_retry_calls) :
              /\ retry_st.on_retry_calls[k].attempt = k
              /\ retry_st.on_retry_calls[k].delay = retry_st.sleeps[k]

----------------------------------------------------------------------------
(* Test sequence properties *)

Left == seq_pc \in {"returned", "raised"}

MotorSwitchedOn == seq_pc # "idle" /\ seq_st.acked_at > 0

MotorOffSentAfterOn ==
    \E i \in DOMAIN seq_st.calls :
        i > seq_st.acked_at /\ seq_st.calls[i] = "motor_off"

C25_ReturnWitness ==
    /\ seq_pc = "returned"
    /\ MotorSwitchedOn
    /\ seq_st.steps = MAX_SPEED_POSITION
    /\ ~seq_st.motor_started

StepOrder == <<"delete", "ramp", "settle", "start", "wait", "stop", "dump">>

InStepOrder ==
    /\ Len(seq_st.step_ops) <= Len(StepOrder)
    /\ \A i \in DOMAIN seq_st.step_ops : seq_st.step_ops[i] = StepOrder[i]

\* C28: the targets are visited as 1, 2, ... in increasing order, the
\* operations of a step happen in the order delete, ramp, settle, start,
\* wait, stop, dump, and whenever recording is started for the target p the
\* device's last reported speed_position is p
C28_StepsInOrderAtTarget ==
    seq_pc # "idle" =>
        /\ \A i \in DOMAIN seq_st.visited : seq_st.visited[i] = i
        /\ InStepOrder
        /\ \A r \in seq_st.recorded : r.speed_position = r.target

----------------------------------------------------------------------------
(* Pipeline properties *)

Analyzed == cmd_pc = "exited"

\* a required table is absent or has no rows
AccelMissing == ~accel_csv.exists \/ accel_csv.rows = <<>>

HallMissing == ~hall_csv.exists \/ hall_csv.rows = <<>>

MissingMessages ==
    (IF AccelMissing THEN {"Missing: MSG_ACCEL_SAMPLES.csv"} ELSE {})
    \cup (IF HallMissing THEN {"Missing: MSG_HALL_EVENT.csv"} ELSE {})

NoPartialResult ==
    /\ cmd_out.results = <<>>
    /\ cmd_out.enriched.rows = <<>>
    /\ ~cmd_out.plots_dir
    /\ ~cmd_out.report
    /\ ~cmd_out.json

\* C21: when the accelerometer table or the rotation-event table is absent
\* or has no rows, enrichment writes no enriched table, and the analyze
\* command ends with an error that names the missing table and with no
\* partial result: no analyzer ran, no plots directory, report or JSON
C21_MissingInputAborts ==
    (AccelMissing \/ HallMissing) =>
        /\ enrich_ret # "pending" =>
              enrich_ret = "false" /\ accel_csv.columns \subseteq RawColumns
        /\ Analyzed =>
              /\ cmd_out.exit_code # 0
              /\ cmd_out.messages # {}
              /\ cmd_out.messages \subseteq MissingMessages
              /\ NoPartialResult

\* the rows are the samples, one each and in arrival order
SameSamples(rows, samples) ==
    /\ Len(rows) = Len(samples)
    /\ \A i \in DOMAIN rows :
          /\ rows[i].timestamp_us = samples[i].timestamp_us
          /\ rows[i].sequence_num = samples[i].sequence_num

Loaded == Analyzed /\ cmd_out.plots_dir

\* C23: the table enrich_accel_csv writes and the table load_and_enrich
\* joins with the rotation events hold exactly one row per accelerometer
\* sample, in arrival order, with timestamp_us and sequence_num unchanged
C23_OneRowPerSample ==
    /\ Enriched => SameSamples(accel_csv.rows, raw_accel)
    /\ Loaded => SameSamples(cmd_out.enriched.rows, raw_accel)

\* C30: on a capture directory that enrich_accel_csv wrote from non-empty
\* tables, load_and_enrich and run_all_analyses complete: no analyzer reads
\* a column that is not there
C30_StagesCompatible ==
    Enriched /\ Analyzed =>
        /\ cmd_out.results = ANALYZERS
        /\ \A m \in cmd_out.messages : m \notin {"Analysis failed: " \o c : c \in
               {r[2] : r \in UNION {Range(column_reads(ANALYZERS[k])) :
                                        k \in DOMAIN ANALYZERS}}}

====
